---- MODULE Spec2Model ----
(***************************************************************************)
(* Model of the panic-alert provider of the Drishti mobile app             *)
(* (mobile-app/src/components/ErrorBoundary.jsx, PanicProvider) and of the *)
(* helpers it calls (mobile-app/src/lib/supabaseClient.js).                *)
(*                                                                         *)
(* JavaScript runs one task at a time: an async function runs without      *)
(* interruption from one await to the next.  Every action below is one     *)
(* such run: the settling of the awaited call together with all the code   *)
(* that follows it up to the next await (or to the end of the function).   *)
(***************************************************************************)
EXTENDS Integers, Sequences, FiniteSets, TLC

VARIABLES
    firebaseUser,        \* useAuth().firebaseUser
    userProfile,         \* useAuth().userProfile
    hostname,            \* window.location.hostname
    isActivated,         \* useState(false): button feedback
    hasActiveAlerts,     \* useState(false): alert monitoring
    isProcessing,        \* useState(false)
    panicHistory,        \* useState([])
    realtimeAlerts,      \* useState([])
    panicButtonTimeout,  \* window.panicButtonTimeout
    timers,              \* the button-reset timers that are pending
    localStorage,        \* the browser's localStorage, key -> stored JSON
    now,                 \* the number of alerts stored locally so far: the
                         \* clock is read once for each, and is taken to
                         \* have advanced between two readings
    calls,               \* the activatePanic calls: position and locals
    effect,              \* the alert-loading effect: position, mounted, channel,
                         \* and the realtime event handled last
    isAuthenticated,     \* AuthProvider: useState(false)
    loading,             \* AuthProvider: useState(true)
    auth,                \* Firebase Auth: currentUser and the state changes
                         \* its listener has not been told of yet
    listeners,           \* the runs of the onAuthStateChanged callback
    logins,              \* the login calls: position, locals and result
    recorder,            \* one recordStreamToBlob call: recorder, timer, promise
    query,               \* one query chain on the stub client and its await
    usersTable,          \* public.users: the rows with the user_id of the user
    ensure               \* the ensureSupabaseUser calls, made one after another

vars == <<firebaseUser, userProfile, hostname, isActivated, hasActiveAlerts,
          isProcessing, panicHistory, realtimeAlerts, panicButtonTimeout,
          timers, localStorage, now, calls, effect, isAuthenticated, loading,
          auth, listeners, logins, recorder, query, usersTable, ensure>>

\* what the panic provider neither reads nor writes
providerVars == <<isAuthenticated, loading, auth, listeners, logins>>
helperVars == <<recorder, query>>
syncVars == <<usersTable, ensure>>

-----------------------------------------------------------------------------
(* Bounds *)

\* number of activatePanic calls in one behaviour
MaxCalls == 2

\* number of rows of the sos_alerts table (their ids are 1..MaxRows), of
\* alerts a previous session left in localStorage, and of alerts the lists
\* hold before a further INSERT event is left out
MaxRows == 2

Calls == 1..MaxCalls

-----------------------------------------------------------------------------
(* Values *)

\* JavaScript's null / undefined
Null == [null |-> TRUE]

\* a Firebase user has getIdToken; the mock user of local mode has not
FirebaseAuthUser == [uid |-> <<"fb", "1">>, getIdToken |-> TRUE]
LocalMockUser == [uid |-> <<"local_", "1">>, getIdToken |-> FALSE]
FirestoreProfile == [name |-> "n", isLocalUser |-> FALSE]
LocalProfile == [name |-> "n", isLocalUser |-> TRUE]

\* firebaseUser?.uid
Uid(user) == IF user = Null THEN <<>> ELSE user.uid

\* uid.startsWith('local_')
StartsWithLocal(uid) == Len(uid) > 0 /\ uid[1] = "local_"

\* coordinates in units of 1e-5 degree
Locations == {[latitude |-> 1234565, longitude |-> -7654321]}

Messages == {"help"}
DefaultMessage == "Emergency SOS activated without a message."

SupabaseUrl == "https://supabase/sos-videos/v.mp4"
FirebaseUrl == "https://firebase/sos-videos/v.mp4"

Hostnames == {"localhost", "drishti.app"}

\* x || y and !!x on strings (null is the string "null")
OrElse(x, y) == IF x = "" \/ x = "null" THEN y ELSE x
Truthy(x) == ~(x = "" \/ x = "null")

\* Number.prototype.toFixed(4) of a coordinate given in units of 1e-5 degree:
\* the result in units of 1e-4 degree, rounded to the nearest
ToFixed4(x) == IF x >= 0 THEN (x + 5) \div 10 ELSE -((-x + 5) \div 10)

-----------------------------------------------------------------------------
(* localStorage and JSON *)

LocalSosAlertsKey == "local_sos_alerts"

\* localStorage.getItem(key): null when the key is absent
GetItem(store, key) == IF key \in DOMAIN store THEN store[key] ELSE Null

\* localStorage.setItem(key, value)
SetItem(store, key, value) ==
    [k \in DOMAIN store \cup {key} |-> IF k = key THEN value ELSE store[k]]

\* localStorage.removeItem(key)
RemoveItem(store, key) == [k \in DOMAIN store \ {key} |-> store[k]]

LegacySessionKey == "drishti_user_session"

\* JSON.stringify of an alert: a Date becomes its ISO string
StringifyAlert(a) ==
    [a EXCEPT !.timestamp = [type |-> "string", ms |-> a.timestamp.ms]]

\* JSON.stringify / JSON.parse of a list of alerts: the text is modelled by
\* the list of the stringified alerts; parsing leaves the ISO strings as
\* strings
JSONStringify(list) == [json |-> [i \in 1..Len(list) |-> StringifyAlert(list[i])]]
JSONParse(text) == text.json

\* JSON.parse(localStorage.getItem('local_sos_alerts') || '[]')
ReadLocalAlerts(store) ==
    IF GetItem(store, LocalSosAlertsKey) = Null
    THEN <<>>
    ELSE JSONParse(GetItem(store, LocalSosAlertsKey))

-----------------------------------------------------------------------------
(* activatePanic: the state it works on *)

NewCall ==
    [pc |-> "idle", uid |-> <<>>, isLocalMode |-> FALSE, message |-> "",
     stream |-> FALSE, currentLocation |-> Null,
     videoData |-> [videoUrl |-> "null", uploadedTo |-> "null"],
     sosAlertData |-> Null, alertId |-> Null, insertPayload |-> Null,
     supabaseInsertId |-> Null, supaError |-> "none",
     tried |-> <<>>, fetch |-> "none", outcome |-> "none"]

\* the part of the state an activatePanic call reads and writes
State ==
    [isActivated |-> isActivated, isProcessing |-> isProcessing,
     panicHistory |-> panicHistory, realtimeAlerts |-> realtimeAlerts,
     panicButtonTimeout |-> panicButtonTimeout, timers |-> timers,
     localStorage |-> localStorage, now |-> now, calls |-> calls]

Commit(s) ==
    /\ isActivated' = s.isActivated
    /\ isProcessing' = s.isProcessing
    /\ panicHistory' = s.panicHistory
    /\ realtimeAlerts' = s.realtimeAlerts
    /\ panicButtonTimeout' = s.panicButtonTimeout
    /\ timers' = s.timers
    /\ localStorage' = s.localStorage
    /\ now' = s.now
    /\ calls' = s.calls
    /\ UNCHANGED <<firebaseUser, userProfile, hostname, hasActiveAlerts, effect,
                   providerVars, helperVars, syncVars>>

\* window.panicButtonTimeout: 0 is null, a timer id is positive
NoTimeout == 0

\* if (window.panicButtonTimeout) { clearTimeout(...); ... = null }
ClearPanicButtonTimeout(s) ==
    IF s.panicButtonTimeout # NoTimeout
    THEN [s EXCEPT !.timers = @ \ {s.panicButtonTimeout},
                   !.panicButtonTimeout = NoTimeout]
    ELSE s

-----------------------------------------------------------------------------
(* activatePanic, from its end to its start: each operator is the code that *)
(* runs from one point of the function up to the next await                 *)

\* finally { setIsProcessing(false) }: the call has ended and its locals are
\* gone; only how it ended is remembered, and of a call that succeeded what
\* its request to /api/sos/alert met
Finally(s, c) ==
    [s EXCEPT !.isProcessing = FALSE,
              !.calls[c] = [NewCall EXCEPT !.pc = "done",
                                           !.fetch = s.calls[c].fetch,
                                           !.outcome = s.calls[c].outcome]]

\* FailureToast with setIsProcessing(false) at the end of the try block
\* instead of in a finally block
FailureToastWithoutFinally(s, c) ==
    [s EXCEPT !.calls[c] = [NewCall EXCEPT !.pc = "done", !.outcome = "failed"]]

\* the "SOS Alert Failed" toast that ends the catch block: the error, and
\* with it what the request met, goes out of scope
FailureToast(s, c) ==
    Finally([s EXCEPT !.calls[c].outcome = "failed",
                       !.calls[c].fetch = "none"], c)

\* catch (error): the locals of the try block are out of scope; the failure
\* log is written in Firebase mode only
Catch(s, c) ==
    IF Len(s.calls[c].uid) > 0 /\ ~s.calls[c].isLocalMode
    THEN [s EXCEPT !.calls[c] = [NewCall EXCEPT
                       !.pc = "failedLog",
                       !.uid = s.calls[c].uid,
                       !.isLocalMode = s.calls[c].isLocalMode,
                       !.fetch = s.calls[c].fetch]]
    ELSE FailureToast(s, c)

\* after sendPanicAlertToBackend has returned: setIsActivated(true), the
\* success toast, the reset timer (its id is the call's number) and its handle
Activated(s, c) ==
    Finally([s EXCEPT !.isActivated = TRUE,
                       !.timers = @ \cup {c},
                       !.panicButtonTimeout = c,
                       !.calls[c].outcome = "success"], c)

\* await sendPanicAlertToBackend({...sosAlertData, alertId})
SendToBackend(s, c) ==
    [s EXCEPT !.calls[c].pc = "backend"]

\* InsertPayload with the text of the log line (sosAlertData.videoUrl ||
\* 'NO VIDEO') where no video was uploaded
InsertPayloadNoVideoText(uid, sosAlertData, videoData) ==
    [user_id |-> uid,
     message |-> sosAlertData.message,
     video_url |-> OrElse(videoData.videoUrl, "NO VIDEO"),
     location_latitude |-> sosAlertData.location.latitude,
     location_longitude |-> sosAlertData.location.longitude,
     location_address |-> sosAlertData.location.address,
     status |-> "pending"]

\* the payload of the sos_alerts insert, the same in both modes
InsertPayload(uid, sosAlertData, videoData) ==
    [user_id |-> uid,
     message |-> sosAlertData.message,
     video_url |-> OrElse(videoData.videoUrl, "null"),
     location_latitude |-> sosAlertData.location.latitude,
     location_longitude |-> sosAlertData.location.longitude,
     location_address |-> sosAlertData.location.address,
     status |-> "pending"]

\* await supabase.from('sos_alerts').insert([insertPayload]).select('id')
SupabaseInsert(s, c) ==
    [s EXCEPT !.calls[c].pc = "insert",
               !.calls[c].insertPayload =
                   InsertPayload(s.calls[c].uid, s.calls[c].sosAlertData,
                                 s.calls[c].videoData)]

\* PersistLocal with push in place of unshift
PersistLocalPush(s, c) ==
    LET t == s.now + 1
        alertId == [prefix |-> "local_sos_", n |-> t]
        alert == [userId |-> s.calls[c].sosAlertData.userId,
                  message |-> s.calls[c].sosAlertData.message,
                  videoUrl |-> s.calls[c].sosAlertData.videoUrl,
                  location |-> s.calls[c].sosAlertData.location,
                  id |-> alertId,
                  timestamp |-> [type |-> "Date", ms |-> t]]
        localAlerts == ReadLocalAlerts(s.localStorage) \o <<alert>>
    IN  SupabaseInsert(
            [s EXCEPT !.now = t,
                       !.calls[c].alertId = alertId,
                       !.localStorage = SetItem(@, LocalSosAlertsKey,
                                                JSONStringify(localAlerts)),
                       !.panicHistory = localAlerts,
                       !.realtimeAlerts = localAlerts], c)

\* local mode: the alert is put at the head of the stored list, and the list
\* becomes panicHistory and realtimeAlerts
PersistLocal(s, c) ==
    LET t == s.now + 1
        alertId == [prefix |-> "local_sos_", n |-> t]
        alert == [userId |-> s.calls[c].sosAlertData.userId,
                  message |-> s.calls[c].sosAlertData.message,
                  videoUrl |-> s.calls[c].sosAlertData.videoUrl,
                  location |-> s.calls[c].sosAlertData.location,
                  id |-> alertId,
                  timestamp |-> [type |-> "Date", ms |-> t]]
        localAlerts == <<alert>> \o ReadLocalAlerts(s.localStorage)
    IN  SupabaseInsert(
            [s EXCEPT !.now = t,
                       !.calls[c].alertId = alertId,
                       !.localStorage = SetItem(@, LocalSosAlertsKey,
                                                JSONStringify(localAlerts)),
                       !.panicHistory = localAlerts,
                       !.realtimeAlerts = localAlerts], c)

\* Firebase mode: alertId = await createSOSAlert(sosAlertData)
PersistFirestore(s, c) ==
    [s EXCEPT !.calls[c].pc = "createSOSAlert"]

\* const sosAlertData = {...}: reading currentLocation.latitude throws when
\* no location was obtained
SosAlertData(uid, message, videoData, currentLocation) ==
    [userId |-> uid,
     message |-> OrElse(message, DefaultMessage),
     videoUrl |-> videoData.videoUrl,
     location |-> [latitude |-> currentLocation.latitude,
                   longitude |-> currentLocation.longitude,
                   address |-> <<ToFixed4(currentLocation.latitude),
                                 ToFixed4(currentLocation.longitude)>>]]

\* BuildAlert that reads currentLocation?.latitude: without a location the
\* record is built with undefined coordinates
BuildAlertOptionalChaining(s, c) ==
    LET k == s.calls[c]
        s1 == [s EXCEPT !.calls[c].sosAlertData =
                  IF k.currentLocation = Null
                  THEN [userId |-> k.uid,
                        message |-> OrElse(k.message, DefaultMessage),
                        videoUrl |-> k.videoData.videoUrl,
                        location |-> [latitude |-> Null, longitude |-> Null,
                                      address |-> <<>>]]
                  ELSE SosAlertData(k.uid, k.message, k.videoData,
                                    k.currentLocation)]
    IN  IF k.isLocalMode THEN PersistLocal(s1, c) ELSE PersistFirestore(s1, c)

BuildAlert(s, c) ==
    IF s.calls[c].currentLocation = Null
    THEN Catch(s, c)
    ELSE LET s1 == [s EXCEPT !.calls[c].sosAlertData =
                        SosAlertData(s.calls[c].uid, s.calls[c].message,
                                     s.calls[c].videoData,
                                     s.calls[c].currentLocation)]
         IN  IF s.calls[c].isLocalMode
             THEN PersistLocal(s1, c)
             ELSE PersistFirestore(s1, c)

\* the video step: without a stream no upload is tried
VideoStep(s, c) ==
    IF ~s.calls[c].stream
    THEN BuildAlert(s, c)
    ELSE [s EXCEPT !.calls[c].pc = "supabaseUpload",
                   !.calls[c].tried = Append(@, "supabase")]

\* the catch block of the Supabase upload: the Firebase fallback; supaError
\* is what the try block threw
FirebaseFallback(s, c, supaError) ==
    [s EXCEPT !.calls[c].pc = "firebaseUpload",
              !.calls[c].supaError = supaError,
              !.calls[c].tried = Append(@, "firebase")]

\* userProfile.isLocalUser || firebaseUser.uid.startsWith('local_')
IsLocalMode(user, profile) ==
    profile.isLocalUser \/ StartsWithLocal(Uid(user))

\* if (!firebaseUser?.uid || !userProfile) return
Authenticated(user, profile) == Len(Uid(user)) > 0 /\ profile # Null

\* Refuse with setIsProcessing(true) ahead of the authentication check
RefuseAfterSetIsProcessing(s, c) ==
    [s EXCEPT !.isProcessing = TRUE, !.calls[c].pc = "refused"]

\* the authentication check fails: the "Authentication Required" toast, return
Refuse(s, c) == [s EXCEPT !.calls[c].pc = "refused"]

\* the outcome of an awaited call: it threw (rejected), or returned a value
Threw == [threw |-> TRUE]
Returned(v) == [threw |-> FALSE, value |-> v]

\* activatePanic(message, stream) up to its first await; location is the
\* location the LocationContext holds (null when none is cached)
StartPanic(s, c, user, profile, message, stream, location) ==
    LET s1 == ClearPanicButtonTimeout(s)
        s2 == [s1 EXCEPT !.isProcessing = TRUE,
                         !.calls[c] = [NewCall EXCEPT
                             !.pc = "start",
                             !.uid = Uid(user),
                             !.isLocalMode = IsLocalMode(user, profile),
                             !.message = message,
                             !.stream = stream,
                             !.currentLocation = location]]
    IN  IF location = Null
        THEN [s2 EXCEPT !.calls[c].pc = "location"]
        ELSE VideoStep(s2, c)

\* currentLocation = await getCurrentLocation()
AfterGetCurrentLocation(s, c, r) ==
    IF r.threw
    THEN Catch(s, c)
    ELSE VideoStep([s EXCEPT !.calls[c].currentLocation = r.value], c)

\* uploadStreamToSupabase(stream, userId, options): record, upload, public URL
UploadStreamToSupabase(recorded, uploadError, publicUrl) ==
    IF ~recorded THEN Threw
    ELSE IF uploadError THEN Threw
    ELSE Returned([videoUrl |-> OrElse(publicUrl, "null")])

\* AfterSupabaseUpload without the check of supaResult.videoUrl
AfterSupabaseUploadUnchecked(s, c, r) ==
    IF r.threw
    THEN FirebaseFallback(s, c, "threw")
    ELSE BuildAlert([s EXCEPT !.calls[c].videoData =
                        [videoUrl |-> r.value.videoUrl,
                         uploadedTo |-> "supabase"]], c)

\* const supaResult = await uploadStreamToSupabase(...) and what follows
AfterSupabaseUpload(s, c, r) ==
    IF r.threw
    THEN FirebaseFallback(s, c, "threw")
    ELSE IF ~Truthy(r.value.videoUrl)
    THEN FirebaseFallback(s, c, "Upload completed but no video URL returned")
    ELSE BuildAlert([s EXCEPT !.calls[c].videoData =
                        [videoUrl |-> r.value.videoUrl,
                         uploadedTo |-> "supabase"]], c)

\* AfterFirebaseUpload with a fallback whose failure is rethrown
AfterFirebaseUploadRethrown(s, c, r) ==
    LET s1 == [s EXCEPT !.calls[c].supaError = "none"]
    IN  IF r.threw \/ ~Truthy(r.value.videoUrl)
        THEN Catch(s1, c)
        ELSE BuildAlert([s1 EXCEPT !.calls[c].videoData =
                            [videoUrl |-> r.value.videoUrl,
                             uploadedTo |-> "firebase"]], c)

\* const fbResult = await uploadVideoAndGetURL(...) and what follows; the
\* catch block of the fallback only logs, and supaError goes out of scope
AfterFirebaseUpload(s, c, r) ==
    LET s1 == [s EXCEPT !.calls[c].supaError = "none"]
    IN  IF r.threw \/ ~Truthy(r.value.videoUrl)
        THEN BuildAlert(s1, c)
        ELSE BuildAlert([s1 EXCEPT !.calls[c].videoData =
                            [videoUrl |-> r.value.videoUrl,
                             uploadedTo |-> "firebase"]], c)

\* AfterCreateSOSAlert that writes the log without testing alertId
AfterCreateSOSAlertAlwaysLogging(s, c, r) ==
    IF r.threw
    THEN Catch(s, c)
    ELSE [s EXCEPT !.calls[c].alertId = r.value,
                   !.calls[c].pc = "createdLog"]

\* alertId = await createSOSAlert(sosAlertData); if (alertId) the log
AfterCreateSOSAlert(s, c, r) ==
    IF r.threw
    THEN Catch(s, c)
    ELSE LET s1 == [s EXCEPT !.calls[c].alertId = r.value]
         IN  IF r.value # Null
             THEN [s1 EXCEPT !.calls[c].pc = "createdLog"]
             ELSE SupabaseInsert(s1, c)

\* AfterCreatedLog that notifies the backend before the sos_alerts insert
AfterCreatedLogBackendFirst(s, c, r) == SendToBackend(s, c)

\* await createNotificationLog({type: 'sos_alert_created'}) in its own try
AfterCreatedLog(s, c, r) == SupabaseInsert(s, c)

\* AfterSupabaseInsert without the try around the insert
AfterSupabaseInsertUncaught(s, c, r) ==
    IF r.threw THEN Catch(s, c)
    ELSE SendToBackend(
             IF r.value.error # "null" THEN s
             ELSE [s EXCEPT !.calls[c].supabaseInsertId = r.value.data], c)

\* const { data, error } = await ...insert(...).select('id') in its own try
AfterSupabaseInsert(s, c, r) ==
    SendToBackend(
        IF r.threw THEN s
        ELSE IF r.value.error # "null" THEN s
        ELSE [s EXCEPT !.calls[c].supabaseInsertId = r.value.data], c)

\* hostname === 'localhost' || hostname.includes('fly.dev')
IncludesFlyDev(host) == host \in {"fly.dev", "drishti.fly.dev"}
IsDevelopmentHost(host) == host = "localhost" \/ IncludesFlyDev(host)

\* BackendTry without the check of response.ok
BackendTryWithoutOkCheck(host, user, response) ==
    IF IsDevelopmentHost(host) THEN [threw |-> FALSE, fetch |-> "none"]
    ELSE IF ~user.getIdToken THEN [threw |-> TRUE, fetch |-> "none"]
    ELSE IF response = "noToken" THEN [threw |-> TRUE, fetch |-> "none"]
    ELSE IF response \in {"ok", "notOk"} THEN [threw |-> FALSE, fetch |-> response]
    ELSE [threw |-> TRUE, fetch |-> response]

\* the try block of sendPanicAlertToBackend: whether it threw, and what the
\* request to /api/sos/alert met ("none" when no request was made).  On a
\* development host it returns after the delay; elsewhere the mock user of
\* local mode has no getIdToken (a TypeError), getIdToken may reject
\* ("noToken"), the request may fail ("networkError"), the response may be
\* not ok ("notOk"), and the body of an ok response may not parse
\* ("invalidJson").
BackendTry(host, user, response) ==
    IF IsDevelopmentHost(host) THEN [threw |-> FALSE, fetch |-> "none"]
    ELSE IF ~user.getIdToken THEN [threw |-> TRUE, fetch |-> "none"]
    ELSE IF response = "noToken" THEN [threw |-> TRUE, fetch |-> "none"]
    ELSE IF response = "ok" THEN [threw |-> FALSE, fetch |-> response]
    ELSE [threw |-> TRUE, fetch |-> response]

\* sendPanicAlertToBackend(payload): its catch rethrows outside development
SendPanicAlertToBackend(host, user, response) ==
    LET r == BackendTry(host, user, response)
    IN  IF r.threw /\ IsDevelopmentHost(host)
        THEN [r EXCEPT !.threw = FALSE]
        ELSE r

\* await sendPanicAlertToBackend(...) and what follows
AfterBackend(s, c, r) ==
    LET s1 == [s EXCEPT !.calls[c].fetch = r.fetch]
    IN  IF r.threw THEN Catch(s1, c) ELSE Activated(s1, c)

\* await createNotificationLog({type: 'sos_alert_failed'}).catch(console.error)
AfterFailedLog(s, c, r) == FailureToast(s, c)

\* deactivatePanic without the clearing of the timer
DeactivatePanicOpKeepingTimer(s) == [s EXCEPT !.isActivated = FALSE]

\* deactivatePanic()
DeactivatePanicOp(s) == [ClearPanicButtonTimeout(s) EXCEPT !.isActivated = FALSE]

\* resetButtonState()
ResetButtonStateOp(s) == [ClearPanicButtonTimeout(s) EXCEPT !.isActivated = FALSE]

\* the callback of the reset timer: setIsActivated(false)
ResetTimerCallback(s, t) ==
    [s EXCEPT !.isActivated = FALSE, !.timers = @ \ {t}]

-----------------------------------------------------------------------------
(* The alert-loading effect and the realtime handlers *)

\* the status of an alert: undefined when the alert has no status field, as
\* the alerts saved in local mode
Status(a) == IF "status" \in DOMAIN a THEN a.status ELSE "undefined"

\* FindActive that looks for 'pending' only
RECURSIVE FindPending(_)
FindPending(alerts) ==
    IF alerts = <<>> THEN Null
    ELSE IF Status(Head(alerts)) = "pending"
    THEN Head(alerts)
    ELSE FindPending(Tail(alerts))

\* alerts.find(a => a.status === 'pending' || a.status === 'active'): the
\* first such alert, or undefined
RECURSIVE FindActive(_)
FindActive(alerts) ==
    IF alerts = <<>> THEN Null
    ELSE IF Status(Head(alerts)) = "pending" \/ Status(Head(alerts)) = "active"
    THEN Head(alerts)
    ELSE FindActive(Tail(alerts))

\* !!x of an object or undefined
TruthyObject(x) == x # Null

\* the rows of the sos_alerts table: status is null or a status
Statuses == {"null", "pending", "active", "resolved"}
Rows ==
    [id : 1..MaxRows, status : Statuses, created_at : {"2025-01-01"},
     message : {"help"}, video_url : {"null"},
     location_latitude : {1234565}, location_longitude : {-7654321},
     location_address : {<<123457, -765432>>}]

\* normalize(row)
Normalize(row) ==
    [id |-> row.id,
     timestamp |-> [type |-> "Date", ms |-> row.created_at],
     status |-> OrElse(row.status, "pending"),
     message |-> row.message,
     videoUrl |-> OrElse(row.video_url, "null"),
     location |-> [latitude |-> row.location_latitude,
                   longitude |-> row.location_longitude,
                   address |-> row.location_address]]

\* (data || []).map(normalize)
MapNormalize(data) == [i \in 1..Len(data) |-> Normalize(data[i])]

\* the part of the state the effect and the handlers read and write
AlertState ==
    [panicHistory |-> panicHistory, realtimeAlerts |-> realtimeAlerts,
     hasActiveAlerts |-> hasActiveAlerts, effect |-> effect]

CommitAlerts(s) ==
    /\ panicHistory' = s.panicHistory
    /\ realtimeAlerts' = s.realtimeAlerts
    /\ hasActiveAlerts' = s.hasActiveAlerts
    /\ effect' = s.effect
    /\ UNCHANGED <<firebaseUser, userProfile, hostname, isActivated,
                   isProcessing, panicButtonTimeout, timers, localStorage,
                   now, calls, providerVars, helperVars, syncVars>>

\* local mode: the alerts are read from localStorage
LoadLocalAlerts(s, store) ==
    LET localAlerts == ReadLocalAlerts(store)
    IN  [s EXCEPT !.panicHistory = localAlerts,
                  !.realtimeAlerts = localAlerts,
                  !.hasActiveAlerts = TruthyObject(FindActive(localAlerts)),
                  !.effect.pc = "loaded"]

\* the effect, up to the await of the initial fetch
RunEffect(s, user, profile, store) ==
    IF ~Authenticated(user, profile) THEN [s EXCEPT !.effect.pc = "skipped"]
    ELSE IF IsLocalMode(user, profile) THEN LoadLocalAlerts(s, store)
    ELSE [s EXCEPT !.effect.pc = "fetching", !.effect.mounted = TRUE]

\* supabase.channel(...).on(INSERT).on(UPDATE).subscribe(...)
Subscribe(s) == [s EXCEPT !.effect.pc = "subscribed", !.effect.channel = "subscribed"]

\* const { data, error } = await supabase.from('sos_alerts')... and what
\* follows: r.value.data is null or the rows
AfterFetch(s, r) ==
    IF r.threw THEN [s EXCEPT !.effect.pc = "failed"]
    ELSE IF r.value.error # "null" THEN Subscribe(s)
    ELSE IF s.effect.mounted
    THEN LET alerts == MapNormalize(r.value.data)
         IN  Subscribe([s EXCEPT
                 !.panicHistory = alerts,
                 !.realtimeAlerts = alerts,
                 !.hasActiveAlerts = TruthyObject(FindActive(alerts))])
    ELSE Subscribe(s)

\* the INSERT handler with [...prev, newAlert]
OnInsertAtEnd(s, row) ==
    LET newAlert == Normalize(row)
    IN  [s EXCEPT !.panicHistory = @ \o <<newAlert>>,
                  !.realtimeAlerts = @ \o <<newAlert>>,
                  !.hasActiveAlerts = TRUE,
                  !.effect.lastEvent = "INSERT"]

\* the INSERT handler
OnInsert(s, row) ==
    LET newAlert == Normalize(row)
    IN  [s EXCEPT !.panicHistory = <<newAlert>> \o @,
                  !.realtimeAlerts = <<newAlert>> \o @,
                  !.hasActiveAlerts = TRUE,
                  !.effect.lastEvent = "INSERT"]

\* an update that adds the alert when no alert of the list has its id
MapUpdateOrAdd(prev, updated) ==
    IF \E i \in 1..Len(prev) : prev[i].id = updated.id
    THEN [i \in 1..Len(prev) |->
             IF prev[i].id = updated.id THEN updated ELSE prev[i]]
    ELSE <<updated>> \o prev

\* prev.map(p => p.id === updated.id ? updated : p)
MapUpdate(prev, updated) ==
    [i \in 1..Len(prev) |-> IF prev[i].id = updated.id THEN updated ELSE prev[i]]

\* const active = (prev => prev.find(...)): a function, not the alert found
ActiveOfUpdateHandler == [arrow |-> "prev => prev.find(a => ...)"]

\* the UPDATE handler
OnUpdate(s, row) ==
    LET updated == Normalize(row)
    IN  [s EXCEPT !.panicHistory = MapUpdate(@, updated),
                  !.realtimeAlerts = MapUpdate(@, updated),
                  !.hasActiveAlerts = TruthyObject(ActiveOfUpdateHandler),
                  !.effect.lastEvent = "UPDATE"]

\* the cleanup of the effect
Cleanup(s) ==
    [s EXCEPT !.effect.mounted = FALSE,
              !.effect.cleaned = TRUE,
              !.effect.channel =
                  IF @ = "subscribed" THEN "unsubscribed" ELSE @]

-----------------------------------------------------------------------------
(* Actions *)

LocationOutcomes == {Threw, Returned(Null)} \cup {Returned(l) : l \in Locations}
FirebaseUploadOutcomes ==
    {Threw, Returned([videoUrl |-> "null"]), Returned([videoUrl |-> FirebaseUrl])}
CreateSOSAlertOutcomes(c) ==
    {Threw, Returned(Null), Returned([prefix |-> "sos_", n |-> c])}
LogOutcomes == {Threw, Returned(Null)}
InsertOutcomes(c) ==
    {Threw,
     Returned([data |-> Null, error |-> "insert failed"]),
     Returned([data |-> [id |-> c], error |-> "null"])}
FetchResponses == {"ok", "notOk", "networkError", "invalidJson", "noToken"}

ActivatePanic(c) ==
    /\ calls[c].pc = "idle"
    /\ c > 1 => calls[c - 1].pc # "idle"
    /\ \E message \in Messages, stream \in BOOLEAN,
          location \in Locations \cup {Null} :
          IF Authenticated(firebaseUser, userProfile)
          THEN Commit(StartPanic(State, c, firebaseUser, userProfile,
                                 message, stream, location))
          ELSE Commit(Refuse(State, c))

GetCurrentLocationSettles(c) ==
    /\ calls[c].pc = "location"
    /\ \E r \in LocationOutcomes :
          Commit(AfterGetCurrentLocation(State, c, r))

SupabaseUploadSettles(c) ==
    /\ calls[c].pc = "supabaseUpload"
    /\ \E recorded \in BOOLEAN, uploadError \in BOOLEAN,
          publicUrl \in {"null", SupabaseUrl} :
          Commit(AfterSupabaseUpload(State, c,
                     UploadStreamToSupabase(recorded, uploadError, publicUrl)))

FirebaseUploadSettles(c) ==
    /\ calls[c].pc = "firebaseUpload"
    /\ \E r \in FirebaseUploadOutcomes :
          Commit(AfterFirebaseUpload(State, c, r))

CreateSOSAlertSettles(c) ==
    /\ calls[c].pc = "createSOSAlert"
    /\ \E r \in CreateSOSAlertOutcomes(c) : Commit(AfterCreateSOSAlert(State, c, r))

CreatedLogSettles(c) ==
    /\ calls[c].pc = "createdLog"
    /\ \E r \in LogOutcomes : Commit(AfterCreatedLog(State, c, r))

SupabaseInsertSettles(c) ==
    /\ calls[c].pc = "insert"
    /\ \E r \in InsertOutcomes(c) : Commit(AfterSupabaseInsert(State, c, r))

BackendSettles(c) ==
    /\ calls[c].pc = "backend"
    /\ \E response \in FetchResponses :
          Commit(AfterBackend(State, c,
                     SendPanicAlertToBackend(hostname, firebaseUser, response)))

FailedLogSettles(c) ==
    /\ calls[c].pc = "failedLog"
    /\ \E r \in LogOutcomes : Commit(AfterFailedLog(State, c, r))

ResetTimerFires ==
    \E t \in timers : Commit(ResetTimerCallback(State, t))

DeactivatePanic == Commit(DeactivatePanicOp(State))

ResetButtonState == Commit(ResetButtonStateOp(State))

-----------------------------------------------------------------------------
(* The sign-in provider: login and the auth listener (AuthProvider) *)

\* number of login calls in one behaviour; the listener runs once when it
\* is registered and once for every sign-in that succeeds
MaxLogins == 2

Logins == 1..MaxLogins
Listeners == 1..(MaxLogins + 1)

SessionKey == "safeguard_user_session"

\* firebaseUid: null
NoUid == <<>>

\* the form data: complete, without a name, an email or a phone number, with
\* an email or a phone number the patterns reject
UserDatas ==
    {[name |-> " n ", email |-> "A@B.C", phone |-> "+1 (23)"],
     [name |-> "", email |-> "A@B.C", phone |-> "+1 (23)"],
     [name |-> " n ", email |-> "", phone |-> "+1 (23)"],
     [name |-> " n ", email |-> "A@B.C", phone |-> ""],
     [name |-> " n ", email |-> "ab.c", phone |-> "+1 (23)"],
     [name |-> " n ", email |-> "A@B.C", phone |-> "012"]}

\* /^[^\s@]+@[^\s@]+\.[^\s@]+$/.test(email)
EmailRegexTest(email) == email \in {"A@B.C", "a@b.c"}

\* phone.replace(/[\s\-\(\)]/g, '')
StripPhone(phone) == IF phone = "+1 (23)" THEN "+123" ELSE phone

\* /^[\+]?[1-9][\d]{0,15}$/.test(phone)
PhoneRegexTest(phone) == phone \in {"+123", "123"}

Trim(text) == IF text = " n " THEN "n" ELSE text
ToLowerCase(text) == IF text = "A@B.C" THEN "a@b.c" ELSE text

\* the message of the error the validation throws, "null" when it passes
ValidationError(userData) ==
    IF userData.name = "" \/ userData.email = "" \/ userData.phone = ""
    THEN "Please fill in all required fields"
    ELSE IF ~EmailRegexTest(userData.email)
    THEN "Please enter a valid email address"
    ELSE IF ~PhoneRegexTest(StripPhone(userData.phone))
    THEN "Please enter a valid phone number"
    ELSE "null"

\* the clock is read once in a login; the dates are left out
ProcessedUserData(userData) ==
    [id |-> <<"user_", "1">>, name |-> Trim(userData.name),
     email |-> Trim(ToLowerCase(userData.email)),
     phone |-> Trim(userData.phone)]

FirebaseUserData(processed, userId) ==
    [id |-> userId, name |-> processed.name, email |-> processed.email,
     phone |-> processed.phone, firebaseUid |-> userId]

FallbackUserDataKeepingId(processed) ==
    [id |-> processed.id, name |-> processed.name, email |-> processed.email,
     phone |-> processed.phone, firebaseUid |-> NoUid, isLocalUser |-> TRUE]

FallbackUserData(processed) ==
    [id |-> <<"local_", "1">>, name |-> processed.name,
     email |-> processed.email, phone |-> processed.phone,
     firebaseUid |-> NoUid, isLocalUser |-> TRUE]

\* { uid: finalUserData.id, isAnonymous: true }
MockUser(id) == [uid |-> id, getIdToken |-> FALSE]

\* JSON.stringify / JSON.parse of a session; a text that is not JSON makes
\* JSON.parse throw
StringifyUser(data) == [json |-> data]
CorruptText == [text |-> "{"]
ParseUser(text) ==
    IF "json" \in DOMAIN text THEN Returned(text.json) ELSE Threw

NewLogin ==
    [pc |-> "idle", caller |-> "none", processedUserData |-> Null,
     finalUserData |-> Null, shouldUseFallback |-> FALSE,
     result |-> "none", value |-> Null]

NewListener == [pc |-> "idle", fbUser |-> Null, login |-> 0]

\* the part of the state login and the listener read and write
AuthState ==
    [firebaseUser |-> firebaseUser, userProfile |-> userProfile,
     isAuthenticated |-> isAuthenticated, loading |-> loading,
     localStorage |-> localStorage, auth |-> auth, listeners |-> listeners,
     logins |-> logins]

CommitAuth(s) ==
    /\ firebaseUser' = s.firebaseUser
    /\ userProfile' = s.userProfile
    /\ isAuthenticated' = s.isAuthenticated
    /\ loading' = s.loading
    /\ localStorage' = s.localStorage
    /\ auth' = s.auth
    /\ listeners' = s.listeners
    /\ logins' = s.logins
    /\ UNCHANGED <<hostname, isActivated, hasActiveAlerts, isProcessing,
                   panicHistory, realtimeAlerts, panicButtonTimeout, timers,
                   now, calls, effect, helperVars, syncVars>>

\* finally { setLoading(false) }
LoginFinally(s, n) == [s EXCEPT !.loading = FALSE, !.logins[n].pc = "done"]

\* the catch block of login without the finally block after it
LoginCatchWithoutFinally(s, n, error) ==
    [s EXCEPT !.logins[n].result = "rejected",
              !.logins[n].value = [message |-> error],
              !.logins[n].pc = "done"]

\* catch (error): the toast, then the error is thrown again
LoginCatch(s, n, error) ==
    LoginFinally([s EXCEPT !.logins[n].result = "rejected",
                           !.logins[n].value = [message |-> error]], n)

\* return finalUserData
LoginReturn(s, n) ==
    LoginFinally([s EXCEPT !.logins[n].result = "resolved",
                           !.logins[n].value = s.logins[n].finalUserData], n)

\* the final sync: await ensureSupabaseUser(...) in a try of its own
FinalSync(s, n) == [s EXCEPT !.logins[n].pc = "finalSync"]

AfterFinalSync(s, n, r) == LoginReturn(s, n)

\* if (shouldUseFallback): the session is stored and the mock user is set
Fallback(s, n) ==
    LET d == s.logins[n].finalUserData
    IN  FinalSync([s EXCEPT !.localStorage = SetItem(@, SessionKey,
                                                     StringifyUser(d)),
                            !.firebaseUser = MockUser(d.id),
                            !.userProfile = d,
                            !.isAuthenticated = TRUE], n)

\* else: setUser(firebaseUser.user) names the constant of the inner try
\* block, which is not in scope here: the read throws a ReferenceError
\* before any state is set, and the outer catch takes it
Connected(s, n) == LoginCatch(s, n, "firebaseUser is not defined")

AfterBranches(s, n) ==
    IF s.logins[n].shouldUseFallback THEN Fallback(s, n) ELSE Connected(s, n)

\* catch (authError)
AuthErrorKeepingId(s, n) ==
    AfterBranches([s EXCEPT !.logins[n].shouldUseFallback = TRUE,
                            !.logins[n].finalUserData =
                                FallbackUserDataKeepingId(
                                    s.logins[n].processedUserData)], n)

AuthError(s, n) ==
    AfterBranches([s EXCEPT !.logins[n].shouldUseFallback = TRUE,
                            !.logins[n].finalUserData =
                                FallbackUserData(
                                    s.logins[n].processedUserData)], n)

\* signInAnonymously(auth) settled
AfterSignIn(s, n, r) ==
    IF r.threw THEN AuthError(s, n)
    ELSE [s EXCEPT !.logins[n].finalUserData =
                       FirebaseUserData(s.logins[n].processedUserData,
                                        r.value.uid),
                   !.logins[n].pc = "saveProfile"]

\* createOrUpdateUser(userId, finalUserData) settled
AfterCreateOrUpdateUser(s, n, r) ==
    IF r.threw THEN AfterBranches(s, n)
    ELSE [s EXCEPT !.logins[n].pc = "firstSync"]

\* the first ensureSupabaseUser settled: its error is caught
AfterFirstSync(s, n, r) == AfterBranches(s, n)

\* login(userData) up to its first await
StartLogin(s, n, caller, userData) ==
    LET s1 == [s EXCEPT !.loading = TRUE, !.logins[n].caller = caller]
    IN  IF ValidationError(userData) # "null"
        THEN LoginCatch(s1, n, ValidationError(userData))
        ELSE [s1 EXCEPT !.logins[n].processedUserData =
                            ProcessedUserData(userData),
                        !.logins[n].pc = "signIn"]

\* setLoading(false) at the end of the listener
ListenerEnd(s, l) == [s EXCEPT !.loading = FALSE, !.listeners[l].pc = "done"]

\* setUser(null); setUserProfile(null); setIsAuthenticated(false)
SignedOut(s, l) ==
    ListenerEnd([s EXCEPT !.firebaseUser = Null, !.userProfile = Null,
                          !.isAuthenticated = FALSE], l)

\* after await login(parsedUser), resolved or rejected: the legacy session
\* is removed, and the statements after the if follow
AfterMigration(s, l) ==
    SignedOut([s EXCEPT !.localStorage = RemoveItem(@, LegacySessionKey)], l)

\* the listener up to its first await; n is the login it may start
ListenerStart(s, l, fbUser, n) ==
    LET s1 == [s EXCEPT !.listeners[l].fbUser = fbUser]
        savedUser == GetItem(s.localStorage, LegacySessionKey)
    IN  IF fbUser # Null THEN [s1 EXCEPT !.listeners[l].pc = "getUser"]
        ELSE IF savedUser = Null THEN SignedOut(s1, l)
        ELSE IF ParseUser(savedUser).threw THEN AfterMigration(s1, l)
        ELSE [StartLogin(s1, n, "listener", ParseUser(savedUser).value)
                 EXCEPT !.listeners[l].pc = "login", !.listeners[l].login = n]

\* getUser(firebaseUser.uid) settled
AfterGetUser(s, l, r) ==
    IF r.threw THEN ListenerEnd(s, l)
    ELSE IF r.value # Null
    THEN ListenerEnd([s EXCEPT !.firebaseUser = s.listeners[l].fbUser,
                               !.userProfile = r.value,
                               !.isAuthenticated = TRUE], l)
    ELSE ListenerEnd([s EXCEPT !.firebaseUser = s.listeners[l].fbUser,
                               !.isAuthenticated = TRUE], l)

\* outside the sign-in: nothing of the provider or of the helpers is running
NewRecorder(version) ==
    [version |-> version, pc |-> "idle", stream |-> "none", state |-> "none",
     chunks |-> <<>>, slices |-> 0, events |-> <<>>, timeout |-> "none",
     promise |-> "pending", value |-> Null, failed |-> FALSE]
\* no call of ensureSupabaseUser has been made
NewEnsure ==
    [pc |-> "idle", calls |-> 0, before |-> 0, result |-> "none",
     inserted |-> 0, unique |-> TRUE]

NewQuery(client) ==
    [client |-> client, pc |-> "idle", object |-> "none", chain |-> <<>>,
     result |-> Null]

Settled ==
    /\ isAuthenticated = (firebaseUser # Null)
    /\ loading = FALSE
    /\ auth = [currentUser |-> IF firebaseUser = FirebaseAuthUser
                               THEN firebaseUser ELSE Null,
               events |-> <<>>]
    /\ listeners = [l \in Listeners |-> NewListener]
    /\ logins = [n \in Logins |-> NewLogin]
    /\ recorder = NewRecorder("part_001")
    /\ query = NewQuery("createChainableStub")
    /\ usersTable = 0
    /\ ensure = NewEnsure

-----------------------------------------------------------------------------
(* The panic button: activatePanic calls, the reset timer, the manual resets *)

NewEffect ==
    [pc |-> "idle", mounted |-> FALSE, cleaned |-> FALSE, channel |-> "null",
     lastEvent |-> "none"]

AuthStates ==
    {<<Null, Null>>, <<FirebaseAuthUser, Null>>,
     <<FirebaseAuthUser, FirestoreProfile>>, <<LocalMockUser, LocalProfile>>}

Init ==
    /\ \E a \in AuthStates : firebaseUser = a[1] /\ userProfile = a[2]
    /\ hostname \in Hostnames
    /\ isActivated = FALSE
    /\ hasActiveAlerts = FALSE
    /\ isProcessing = FALSE
    /\ panicHistory = <<>>
    /\ realtimeAlerts = <<>>
    /\ panicButtonTimeout = NoTimeout
    /\ timers = {}
    /\ localStorage = <<>>
    /\ now = 0
    /\ calls = [c \in Calls |-> NewCall]
    /\ effect = NewEffect
    /\ Settled

Next ==
    \/ \E c \in Calls : ActivatePanic(c)
    \/ \E c \in Calls : GetCurrentLocationSettles(c)
    \/ \E c \in Calls : SupabaseUploadSettles(c)
    \/ \E c \in Calls : FirebaseUploadSettles(c)
    \/ \E c \in Calls : CreateSOSAlertSettles(c)
    \/ \E c \in Calls : CreatedLogSettles(c)
    \/ \E c \in Calls : SupabaseInsertSettles(c)
    \/ \E c \in Calls : BackendSettles(c)
    \/ \E c \in Calls : FailedLogSettles(c)
    \/ ResetTimerFires
    \/ DeactivatePanic
    \/ ResetButtonState

Spec == Init /\ [][Next]_vars

-----------------------------------------------------------------------------
(* The panic button over a session that ends: the user signs out *)

\* logout(), when auth.signOut() resolves: the provider then renders with
\* no user and no profile.  A call of activatePanic keeps the user of the
\* render it was started in, and the sign-out is taken when none is in
\* progress.
SignOut ==
    /\ firebaseUser # Null
    /\ \A c \in Calls : calls[c].pc \in {"idle", "refused", "done"}
    /\ firebaseUser' = Null
    /\ userProfile' = Null
    /\ isAuthenticated' = FALSE
    /\ localStorage' = RemoveItem(localStorage, LegacySessionKey)
    /\ UNCHANGED <<hostname, isActivated, hasActiveAlerts, isProcessing,
                   panicHistory, realtimeAlerts, panicButtonTimeout, timers,
                   now, calls, effect, loading, auth, listeners, logins,
                   helperVars, syncVars>>

NextSession == Next \/ SignOut

SessionSpec == Init /\ [][NextSession]_vars

-----------------------------------------------------------------------------
(* One activatePanic call on each kind of host *)

\* a host whose name contains 'fly.dev' besides the two of Hostnames
BackendHostnames == Hostnames \cup {"drishti.fly.dev"}

InitOneCall ==
    /\ \E a \in AuthStates : firebaseUser = a[1] /\ userProfile = a[2]
    /\ hostname \in BackendHostnames
    /\ isActivated = FALSE
    /\ hasActiveAlerts = FALSE
    /\ isProcessing = FALSE
    /\ panicHistory = <<>>
    /\ realtimeAlerts = <<>>
    /\ panicButtonTimeout = NoTimeout
    /\ timers = {}
    /\ localStorage = <<>>
    /\ now = 0
    /\ calls = [c \in Calls |-> NewCall]
    /\ effect = NewEffect
    /\ Settled

NextOneCall ==
    \/ ActivatePanic(1)
    \/ GetCurrentLocationSettles(1)
    \/ SupabaseUploadSettles(1)
    \/ FirebaseUploadSettles(1)
    \/ CreateSOSAlertSettles(1)
    \/ CreatedLogSettles(1)
    \/ SupabaseInsertSettles(1)
    \/ BackendSettles(1)
    \/ FailedLogSettles(1)
    \/ ResetTimerFires

OneCallSpec == InitOneCall /\ [][NextOneCall]_vars

-----------------------------------------------------------------------------
(* The alert list: the loading effect, the realtime events, the cleanup *)

\* the lists of rows with distinct ids, as a select returns them
RECURSIVE RowLists(_)
RowLists(n) ==
    IF n = 0 THEN {<<>>}
    ELSE RowLists(n - 1) \cup
         {Append(l, r) : l \in {x \in RowLists(n - 1) : Len(x) = n - 1},
                         r \in Rows}

DistinctIds(l) == \A i, j \in 1..Len(l) : i # j => l[i].id # l[j].id

FetchOutcomes ==
    {Threw, Returned([data |-> <<>>, error |-> "fetch failed"])} \cup
    {Returned([data |-> l, error |-> "null"]) :
        l \in {x \in RowLists(MaxRows) : DistinctIds(x)}}

\* what earlier sessions in local mode left in localStorage: nothing, or the
\* list the calls of activatePanic stored
RECURSIVE StoredByPanic(_)
StoredByPanic(n) ==
    IF n = 0 THEN <<>>
    ELSE LET s == [now |-> n - 1, localStorage |-> StoredByPanic(n - 1),
                   panicHistory |-> <<>>, realtimeAlerts |-> <<>>,
                   calls |-> [c \in {1} |-> [NewCall EXCEPT
                       !.uid = Uid(LocalMockUser),
                       !.sosAlertData = SosAlertData(Uid(LocalMockUser), "help",
                           NewCall.videoData, CHOOSE l \in Locations : TRUE)]]]
         IN  PersistLocal(s, 1).localStorage

EffectRuns ==
    /\ effect.pc = "idle"
    /\ CommitAlerts(RunEffect(AlertState, firebaseUser, userProfile, localStorage))

FetchSettles ==
    /\ effect.pc = "fetching"
    /\ \E r \in FetchOutcomes : CommitAlerts(AfterFetch(AlertState, r))

InsertEvent ==
    /\ effect.channel = "subscribed"
    /\ Len(panicHistory) < MaxRows
    /\ \E row \in Rows : CommitAlerts(OnInsert(AlertState, row))

UpdateEvent ==
    /\ effect.channel = "subscribed"
    /\ \E row \in Rows : CommitAlerts(OnUpdate(AlertState, row))

EffectCleanup ==
    /\ effect.pc \in {"fetching", "subscribed", "failed"}
    /\ ~effect.cleaned
    /\ CommitAlerts(Cleanup(AlertState))

InitAlerts ==
    /\ \E a \in AuthStates : firebaseUser = a[1] /\ userProfile = a[2]
    /\ hostname \in Hostnames
    /\ isActivated = FALSE
    /\ hasActiveAlerts = FALSE
    /\ isProcessing = FALSE
    /\ panicHistory = <<>>
    /\ realtimeAlerts = <<>>
    /\ panicButtonTimeout = NoTimeout
    /\ timers = {}
    /\ \E n \in 0..MaxRows : localStorage = StoredByPanic(n) /\ now = n
    /\ calls = [c \in Calls |-> NewCall]
    /\ effect = NewEffect
    /\ Settled

NextAlerts ==
    \/ EffectRuns
    \/ FetchSettles
    \/ InsertEvent
    \/ UpdateEvent
    \/ EffectCleanup

AlertSpec == InitAlerts /\ [][NextAlerts]_vars

-----------------------------------------------------------------------------
(* The sign-in provider: the login calls and the runs of the listener *)

SignInOutcomes == {Threw, Returned([user |-> FirebaseAuthUser])}
SaveOutcomes == {Threw, Returned(Null)}
GetUserOutcomes == {Threw, Returned(Null), Returned(FirestoreProfile)}

\* what an earlier version of the app left under 'drishti_user_session'
LegacySessions ==
    {StringifyUser(u) : u \in UserDatas} \cup {CorruptText}

FreeLogins == {n \in Logins : logins[n].pc = "idle"}
FirstFree(slots) == CHOOSE n \in slots : \A m \in slots : n <= m

\* Firebase tells the listener of a state change
AuthStateChanged ==
    /\ auth.events # <<>>
    /\ LET l == FirstFree({x \in Listeners : listeners[x].pc = "idle"})
           fbUser == Head(auth.events)
           s == [AuthState EXCEPT !.auth.events = Tail(@)]
       IN  IF fbUser = Null /\ GetItem(localStorage, LegacySessionKey) # Null
           THEN /\ FreeLogins # {}
                /\ CommitAuth(ListenerStart(s, l, fbUser, FirstFree(FreeLogins)))
           ELSE CommitAuth(ListenerStart(s, l, fbUser, 0))

GetUserSettles(l) ==
    /\ listeners[l].pc = "getUser"
    /\ \E r \in GetUserOutcomes : CommitAuth(AfterGetUser(AuthState, l, r))

\* the login the listener awaits has settled
MigrationSettles(l) ==
    /\ listeners[l].pc = "login"
    /\ logins[listeners[l].login].pc = "done"
    /\ CommitAuth(AfterMigration(AuthState, l))

\* the sign-in form calls login
LoginCalled ==
    /\ FreeLogins # {}
    /\ \E userData \in UserDatas :
          CommitAuth(StartLogin(AuthState, FirstFree(FreeLogins), "form",
                                userData))

\* a sign-in that succeeds makes the user Firebase's current user, of which
\* the listener is told
SignInSettles(n) ==
    /\ logins[n].pc = "signIn"
    /\ \E r \in SignInOutcomes :
          IF r.threw THEN CommitAuth(AfterSignIn(AuthState, n, r))
          ELSE CommitAuth(AfterSignIn(
                   [AuthState EXCEPT !.auth.currentUser = r.value.user,
                                     !.auth.events = Append(@, r.value.user)],
                   n, Returned(r.value.user)))

CreateOrUpdateUserSettles(n) ==
    /\ logins[n].pc = "saveProfile"
    /\ \E r \in SaveOutcomes : CommitAuth(AfterCreateOrUpdateUser(AuthState, n, r))

FirstSyncSettles(n) ==
    /\ logins[n].pc = "firstSync"
    /\ \E r \in SaveOutcomes : CommitAuth(AfterFirstSync(AuthState, n, r))

FinalSyncSettles(n) ==
    /\ logins[n].pc = "finalSync"
    /\ \E r \in SaveOutcomes : CommitAuth(AfterFinalSync(AuthState, n, r))

\* the provider has mounted: the effect has set loading and registered the
\* listener, and Firebase has restored its user, if it had one
InitAuth ==
    /\ firebaseUser = Null
    /\ userProfile = Null
    /\ isAuthenticated = FALSE
    /\ loading = TRUE
    /\ \E u \in {Null, FirebaseAuthUser} :
          auth = [currentUser |-> u, events |-> <<u>>]
    /\ listeners = [l \in Listeners |-> NewListener]
    /\ logins = [n \in Logins |-> NewLogin]
    /\ \/ localStorage = <<>>
       \/ \E text \in LegacySessions :
             localStorage = SetItem(<<>>, LegacySessionKey, text)
    /\ hostname \in Hostnames
    /\ isActivated = FALSE
    /\ hasActiveAlerts = FALSE
    /\ isProcessing = FALSE
    /\ panicHistory = <<>>
    /\ realtimeAlerts = <<>>
    /\ panicButtonTimeout = NoTimeout
    /\ timers = {}
    /\ now = 0
    /\ calls = [c \in Calls |-> NewCall]
    /\ effect = NewEffect
    /\ recorder = NewRecorder("part_001")
    /\ query = NewQuery("createChainableStub")
    /\ usersTable = 0
    /\ ensure = NewEnsure

NextAuth ==
    \/ AuthStateChanged
    \/ \E l \in Listeners : GetUserSettles(l)
    \/ \E l \in Listeners : MigrationSettles(l)
    \/ LoginCalled
    \/ \E n \in Logins : SignInSettles(n)
    \/ \E n \in Logins : CreateOrUpdateUserSettles(n)
    \/ \E n \in Logins : FirstSyncSettles(n)
    \/ \E n \in Logins : FinalSyncSettles(n)

AuthSpec == InitAuth /\ [][NextAuth]_vars

-----------------------------------------------------------------------------
(* The stub Supabase client: a query chain and its await *)

\* number of methods called on what from(table) returns
MaxChain == 3

\* the two stub clients: createChainableStub of the one file, chainable of
\* the other
StubClients == {"createChainableStub", "chainable"}

ChainMethods == {"select", "insert", "order", "limit", "eq"}
Methods == ChainMethods \cup {"maybeSingle", "single"}

NotConfigured == [data |-> Null, error |-> "Supabase not configured"]

\* an awaited object without a then: the await gives the object itself, and
\* the destructured data and error are undefined
Undefined == [undefined |-> TRUE]
NoResult == [data |-> Undefined, error |-> Undefined]

\* supabase.from(table)
From(client) == IF client = "createChainableStub" THEN "stub" ELSE "chainable"

\* object.method(...): the object returned, or a TypeError when the object
\* has no such method.  noop is async: it returns a promise.
CallMethod(object, method) ==
    CASE object = "stub" ->
             IF method \in {"maybeSingle", "single"}
             THEN Returned("promise") ELSE Returned("stub")
      [] object = "chainable" ->
             IF method \in {"select", "maybeSingle", "limit", "insert"}
             THEN Returned("promise")
             ELSE IF method = "eq" THEN Returned("eqResult")
             ELSE IF method = "order" THEN Returned("orderResult")
             ELSE Threw
      [] object = "eqResult" ->
             IF method = "maybeSingle" THEN Returned("promise") ELSE Threw
      [] object = "orderResult" ->
             IF method = "limit" THEN Returned("promise") ELSE Threw
      [] OTHER -> Threw

\* await object: a promise of noop, maybeSingle or single is fulfilled with
\* the not-configured result; the stub has a then, which is called with the
\* resolving functions and calls neither of them (it returns a promise of
\* its own, which the await does not look at); the other objects have no
\* then
CallsResolve(object) == object # "stub"
AwaitedValue(object) == IF object = "promise" THEN NotConfigured ELSE NoResult

QueryFrom ==
    /\ query.pc = "idle"
    /\ query' = [query EXCEPT !.pc = "built", !.object = From(query.client)]
    /\ UNCHANGED <<firebaseUser, userProfile, hostname, isActivated,
                   hasActiveAlerts, isProcessing, panicHistory, realtimeAlerts,
                   panicButtonTimeout, timers, localStorage, now, calls,
                   effect, providerVars, recorder, syncVars>>

QueryCall ==
    /\ query.pc = "built"
    /\ Len(query.chain) < MaxChain
    /\ \E method \in Methods :
          LET r == CallMethod(query.object, method)
          IN  query' = IF r.threw
                       THEN [query EXCEPT !.pc = "threw",
                                          !.chain = Append(@, method)]
                       ELSE [query EXCEPT !.object = r.value,
                                          !.chain = Append(@, method)]
    /\ UNCHANGED <<firebaseUser, userProfile, hostname, isActivated,
                   hasActiveAlerts, isProcessing, panicHistory, realtimeAlerts,
                   panicButtonTimeout, timers, localStorage, now, calls,
                   effect, providerVars, recorder, syncVars>>

QueryAwait ==
    /\ query.pc = "built"
    /\ query' = [query EXCEPT !.pc = "awaiting"]
    /\ UNCHANGED <<firebaseUser, userProfile, hostname, isActivated,
                   hasActiveAlerts, isProcessing, panicHistory, realtimeAlerts,
                   panicButtonTimeout, timers, localStorage, now, calls,
                   effect, providerVars, recorder, syncVars>>

QuerySettles ==
    /\ query.pc = "awaiting"
    /\ CallsResolve(query.object)
    /\ query' = [query EXCEPT !.pc = "settled",
                              !.result = AwaitedValue(query.object)]
    /\ UNCHANGED <<firebaseUser, userProfile, hostname, isActivated,
                   hasActiveAlerts, isProcessing, panicHistory, realtimeAlerts,
                   panicButtonTimeout, timers, localStorage, now, calls,
                   effect, providerVars, recorder, syncVars>>

InitQuery ==
    /\ firebaseUser = Null
    /\ userProfile = Null
    /\ hostname = "localhost"
    /\ isActivated = FALSE
    /\ hasActiveAlerts = FALSE
    /\ isProcessing = FALSE
    /\ panicHistory = <<>>
    /\ realtimeAlerts = <<>>
    /\ panicButtonTimeout = NoTimeout
    /\ timers = {}
    /\ localStorage = <<>>
    /\ now = 0
    /\ calls = [c \in Calls |-> NewCall]
    /\ effect = NewEffect
    /\ isAuthenticated = (firebaseUser # Null)
    /\ loading = FALSE
    /\ auth = [currentUser |-> Null, events |-> <<>>]
    /\ listeners = [l \in Listeners |-> NewListener]
    /\ logins = [n \in Logins |-> NewLogin]
    /\ recorder = NewRecorder("part_001")
    /\ \E client \in StubClients : query = NewQuery(client)
    /\ usersTable = 0
    /\ ensure = NewEnsure

NextQuery ==
    \/ QueryFrom
    \/ QueryCall
    \/ QueryAwait
    \/ QuerySettles

QuerySpec == InitQuery /\ [][NextQuery]_vars

\* the chains of activatePanic, of the alert-loading effect and of
\* ensureSupabaseUser (its select and its insert)
CallerChains ==
    {<<"insert", "select">>, <<"select", "order", "limit">>,
     <<"select", "eq", "maybeSingle">>}

-----------------------------------------------------------------------------
(* recordStreamToBlob: the recorder, its events, the timer, the promise *)

\* number of dataavailable events before the recorder stops
MaxChunks == 2

\* the function as the one file has it (the tracks are checked, an empty
\* recording is rejected, data is asked for every 500 ms) and as the other
\* has it
RecorderVersions == {"part_001", "supabaseClient.js"}

\* the video track of the stream: live, ended, or none (audio only)
Streams == {"live", "ended", "noVideo"}

\* the size of a chunk of recorded data
ChunkSizes == {0, 1}

RECURSIVE BlobSize(_)
\* new Blob(chunks).size
BlobSize(chunks) ==
    IF chunks = <<>> THEN 0 ELSE Head(chunks) + BlobSize(Tail(chunks))

\* resolve and reject of the promise: the calls after the first have no effect
Resolve(r, blob) ==
    IF r.promise # "pending" THEN r
    ELSE [r EXCEPT !.promise = "resolved", !.value = blob]

Reject(r, error) ==
    IF r.promise # "pending" THEN r
    ELSE [r EXCEPT !.promise = "rejected", !.value = [message |-> error]]

\* clearTimeout(timeout)
ClearTimeout(r) ==
    IF r.timeout = "pending" THEN [r EXCEPT !.timeout = "cleared"] ELSE r

\* mediaRecorder.ondataavailable
OnDataAvailable(r, size) ==
    IF r.version = "part_001" /\ size = 0 THEN r
    ELSE [r EXCEPT !.chunks = Append(@, size)]

\* mediaRecorder.onstop
OnStop(r) ==
    LET r1 == ClearTimeout(r)
        blob == [size |-> BlobSize(r.chunks)]
    IN  IF r.version = "part_001" /\ blob.size = 0
        THEN Reject(r1, "Video recording produced empty blob")
        ELSE Resolve(r1, blob)

\* mediaRecorder.onerror
OnError(r) ==
    [Reject(ClearTimeout(r), "MediaRecorder error") EXCEPT !.failed = TRUE]

\* the recorder stops, by stop() or by itself: it becomes inactive and the
\* events dataavailable and stop are queued
Inactivate(r) ==
    [r EXCEPT !.state = "inactive",
              !.events = @ \o <<"dataavailable", "stop">>]

\* the callback of setTimeout(..., durationMs)
TimeoutCallback(r) ==
    LET r1 == [r EXCEPT !.timeout = "fired"]
    IN  IF r.state = "recording" THEN Inactivate(r1) ELSE r1

\* new MediaRecorder(...), the handlers, start(), setTimeout: either call of
\* the recorder may throw, which the catch turns into a rejection
StartRecorder(r, constructorThrows, startThrows) ==
    IF constructorThrows THEN Reject(r, "NotSupportedError")
    ELSE IF startThrows
    THEN Reject([r EXCEPT !.state = "inactive"], "start failed")
    ELSE [r EXCEPT !.state = "recording", !.timeout = "pending"]

\* the executor of the promise
Executor(r, constructorThrows, startThrows) ==
    IF r.version = "part_001" /\ r.stream = "noVideo"
    THEN Reject(r, "No video tracks available in stream")
    ELSE IF r.version = "part_001" /\ r.stream = "ended"
    THEN Reject(r, "Video track not live")
    ELSE StartRecorder(r, constructorThrows, startThrows)

RecordCalled ==
    /\ recorder.pc = "idle"
    /\ \E stream \in Streams, constructorThrows \in BOOLEAN,
          startThrows \in BOOLEAN :
          recorder' = Executor([recorder EXCEPT !.pc = "called",
                                                !.stream = stream],
                               constructorThrows, startThrows)
    /\ UNCHANGED <<firebaseUser, userProfile, hostname, isActivated,
                   hasActiveAlerts, isProcessing, panicHistory, realtimeAlerts,
                   panicButtonTimeout, timers, localStorage, now, calls,
                   effect, providerVars, query, syncVars>>

\* data is handed over while the recorder records: it was started with a
\* timeslice in the one version only
TimesliceElapses ==
    /\ recorder.state = "recording"
    /\ recorder.version = "part_001"
    /\ recorder.events = <<>>
    /\ recorder.slices < MaxChunks
    /\ recorder' = [recorder EXCEPT !.events = <<"dataavailable">>,
                                    !.slices = @ + 1]
    /\ UNCHANGED <<firebaseUser, userProfile, hostname, isActivated,
                   hasActiveAlerts, isProcessing, panicHistory, realtimeAlerts,
                   panicButtonTimeout, timers, localStorage, now, calls,
                   effect, providerVars, query, syncVars>>

\* the recorder cannot go on: the error event, then it stops
RecorderFails ==
    /\ recorder.state = "recording"
    /\ recorder' = Inactivate([recorder EXCEPT !.events = Append(@, "error")])
    /\ UNCHANGED <<firebaseUser, userProfile, hostname, isActivated,
                   hasActiveAlerts, isProcessing, panicHistory, realtimeAlerts,
                   panicButtonTimeout, timers, localStorage, now, calls,
                   effect, providerVars, query, syncVars>>

\* the tracks of the stream end: the recorder stops by itself
StreamEnds ==
    /\ recorder.state = "recording"
    /\ recorder' = Inactivate(recorder)
    /\ UNCHANGED <<firebaseUser, userProfile, hostname, isActivated,
                   hasActiveAlerts, isProcessing, panicHistory, realtimeAlerts,
                   panicButtonTimeout, timers, localStorage, now, calls,
                   effect, providerVars, query, syncVars>>

TimeoutFires ==
    /\ recorder.timeout = "pending"
    /\ recorder' = TimeoutCallback(recorder)
    /\ UNCHANGED <<firebaseUser, userProfile, hostname, isActivated,
                   hasActiveAlerts, isProcessing, panicHistory, realtimeAlerts,
                   panicButtonTimeout, timers, localStorage, now, calls,
                   effect, providerVars, query, syncVars>>

\* the next event of the recorder is handled
RecorderEvent ==
    /\ recorder.events # <<>>
    /\ LET r == [recorder EXCEPT !.events = Tail(@)]
       IN  CASE Head(recorder.events) = "dataavailable" ->
                    \E size \in ChunkSizes : recorder' = OnDataAvailable(r, size)
             [] Head(recorder.events) = "stop" -> recorder' = OnStop(r)
             [] Head(recorder.events) = "error" -> recorder' = OnError(r)
    /\ UNCHANGED <<firebaseUser, userProfile, hostname, isActivated,
                   hasActiveAlerts, isProcessing, panicHistory, realtimeAlerts,
                   panicButtonTimeout, timers, localStorage, now, calls,
                   effect, providerVars, query, syncVars>>

InitRecorder ==
    /\ firebaseUser = Null
    /\ userProfile = Null
    /\ hostname = "localhost"
    /\ isActivated = FALSE
    /\ hasActiveAlerts = FALSE
    /\ isProcessing = FALSE
    /\ panicHistory = <<>>
    /\ realtimeAlerts = <<>>
    /\ panicButtonTimeout = NoTimeout
    /\ timers = {}
    /\ localStorage = <<>>
    /\ now = 0
    /\ calls = [c \in Calls |-> NewCall]
    /\ effect = NewEffect
    /\ isAuthenticated = FALSE
    /\ loading = FALSE
    /\ auth = [currentUser |-> Null, events |-> <<>>]
    /\ listeners = [l \in Listeners |-> NewListener]
    /\ logins = [n \in Logins |-> NewLogin]
    /\ \E version \in RecorderVersions : recorder = NewRecorder(version)
    /\ query = NewQuery("createChainableStub")
    /\ usersTable = 0
    /\ ensure = NewEnsure

NextRecorder ==
    \/ RecordCalled
    \/ TimesliceElapses
    \/ RecorderFails
    \/ StreamEnds
    \/ TimeoutFires
    \/ RecorderEvent

RecorderSpec == InitRecorder /\ [][NextRecorder]_vars

-----------------------------------------------------------------------------
(* The button and the alert list together *)

\* one call of activatePanic, the timer and the manual resets, together with
\* the loading effect and the realtime events
NextButton ==
    \/ NextOneCall
    \/ DeactivatePanic
    \/ ResetButtonState
    \/ NextAlerts

\* a signed-in user, in Firebase mode or in local mode, on a development
\* host
InitButton ==
    /\ \E a \in {<<FirebaseAuthUser, FirestoreProfile>>,
                 <<LocalMockUser, LocalProfile>>} :
          firebaseUser = a[1] /\ userProfile = a[2]
    /\ hostname = "localhost"
    /\ isActivated = FALSE
    /\ hasActiveAlerts = FALSE
    /\ isProcessing = FALSE
    /\ panicHistory = <<>>
    /\ realtimeAlerts = <<>>
    /\ panicButtonTimeout = NoTimeout
    /\ timers = {}
    /\ localStorage = <<>>
    /\ now = 0
    /\ calls = [c \in Calls |-> NewCall]
    /\ effect = NewEffect
    /\ Settled

ButtonSpec == InitButton /\ [][NextButton]_vars

-----------------------------------------------------------------------------
(* ensureSupabaseUser, called several times for one user_id *)

\* number of calls in one behaviour
MaxSyncs == 4

\* the argument: complete, without a user_id, without a name
SyncUsers ==
    {[user_id |-> "u1", name |-> "n", email |-> "a@b.c", phone |-> "+123"],
     [user_id |-> "", name |-> "n", email |-> "a@b.c", phone |-> "+123"],
     [user_id |-> "u1", name |-> "", email |-> "a@b.c", phone |-> "+123"]}

\* the validation: the message of the error thrown, "null" when none is
EnsureValidation(user) ==
    IF user.user_id = "" THEN "user_id is required"
    ELSE IF user.name = "" \/ user.email = "" \/ user.phone = ""
    THEN "name, email, phone are required"
    ELSE "null"

\* select('user_id').eq('user_id', id).maybeSingle() on a table with the
\* given number of rows for the id, when the request is answered: no row
\* gives null, one row gives the row, several rows give an error
MaybeSingle(rows) ==
    IF rows = 0 THEN [data |-> Null, error |-> "null"]
    ELSE IF rows = 1 THEN [data |-> [user_id |-> "u1"], error |-> "null"]
    ELSE [data |-> Null, error |-> "multiple rows"]

\* what the awaited select gives: the answer, or an error in place of it
SelectOutcomes(rows) ==
    {Threw, Returned([data |-> Null, error |-> "select failed"]),
     Returned(MaybeSingle(rows))}

\* the call has ended: by a return or by a throw
EnsureEnds(e, result) == [e EXCEPT !.pc = "done", !.result = result]

\* ensureSupabaseUser(user) up to its first await
StartEnsure(e, rows, user) ==
    LET e1 == [e EXCEPT !.calls = @ + 1, !.before = rows, !.result = "none"]
    IN  IF EnsureValidation(user) # "null" THEN EnsureEnds(e1, "threw")
        ELSE [e1 EXCEPT !.pc = "select"]

\* after the select: its error is logged and otherwise ignored
AfterSelect(e, r) ==
    IF r.threw THEN EnsureEnds(e, "threw")
    ELSE IF r.value.data # Null THEN EnsureEnds(e, "exists")
    ELSE [e EXCEPT !.pc = "insert"]

\* after insert([payload]).select('user_id')
AfterInsert(e, r) ==
    IF r.threw THEN EnsureEnds(e, "threw")
    ELSE IF r.value.error # "null" THEN EnsureEnds(e, "threw")
    ELSE EnsureEnds([e EXCEPT !.inserted = @ + 1], "inserted")

EnsureCalled ==
    /\ ensure.pc \in {"idle", "done"}
    /\ ensure.calls < MaxSyncs
    /\ \E user \in SyncUsers : ensure' = StartEnsure(ensure, usersTable, user)
    /\ UNCHANGED <<firebaseUser, userProfile, hostname, isActivated,
                   hasActiveAlerts, isProcessing, panicHistory, realtimeAlerts,
                   panicButtonTimeout, timers, localStorage, now, calls,
                   effect, providerVars, helperVars, usersTable>>

SelectSettles ==
    /\ ensure.pc = "select"
    /\ \E r \in SelectOutcomes(usersTable) : ensure' = AfterSelect(ensure, r)
    /\ UNCHANGED <<firebaseUser, userProfile, hostname, isActivated,
                   hasActiveAlerts, isProcessing, panicHistory, realtimeAlerts,
                   panicButtonTimeout, timers, localStorage, now, calls,
                   effect, providerVars, helperVars, usersTable>>

\* the insert fails, or the row is added; a table in which user_id is unique
\* refuses a second row
InsertSettles ==
    /\ ensure.pc = "insert"
    /\ \/ /\ \E r \in {Threw, Returned([data |-> Null,
                                         error |-> "insert failed"])} :
                ensure' = AfterInsert(ensure, r)
          /\ UNCHANGED usersTable
       \/ /\ ~(ensure.unique /\ usersTable > 0)
          /\ usersTable' = usersTable + 1
          /\ ensure' = AfterInsert(ensure,
                           Returned([data |-> <<[user_id |-> "u1"]>>,
                                     error |-> "null"]))
    /\ UNCHANGED <<firebaseUser, userProfile, hostname, isActivated,
                   hasActiveAlerts, isProcessing, panicHistory, realtimeAlerts,
                   panicButtonTimeout, timers, localStorage, now, calls,
                   effect, providerVars, helperVars>>

\* the table is empty or holds the user's row; user_id is unique in it or
\* is not (the schema is not part of the sources)
InitEnsure ==
    /\ firebaseUser = Null
    /\ userProfile = Null
    /\ hostname = "localhost"
    /\ isActivated = FALSE
    /\ hasActiveAlerts = FALSE
    /\ isProcessing = FALSE
    /\ panicHistory = <<>>
    /\ realtimeAlerts = <<>>
    /\ panicButtonTimeout = NoTimeout
    /\ timers = {}
    /\ localStorage = <<>>
    /\ now = 0
    /\ calls = [c \in Calls |-> NewCall]
    /\ effect = NewEffect
    /\ isAuthenticated = FALSE
    /\ loading = FALSE
    /\ auth = [currentUser |-> Null, events |-> <<>>]
    /\ listeners = [l \in Listeners |-> NewListener]
    /\ logins = [n \in Logins |-> NewLogin]
    /\ recorder = NewRecorder("part_001")
    /\ query = NewQuery("createChainableStub")
    /\ usersTable \in {0, 1}
    /\ \E unique \in BOOLEAN : ensure = [NewEnsure EXCEPT !.unique = unique]

NextEnsure ==
    \/ EnsureCalled
    \/ SelectSettles
    \/ InsertSettles

EnsureSpec == InitEnsure /\ [][NextEnsure]_vars

-----------------------------------------------------------------------------
(* Properties of activatePanic *)

\* the positions of a call that is in progress
InFlight ==
    {"location", "supabaseUpload", "firebaseUpload", "createSOSAlert",
     "createdLog", "insert", "backend", "failedLog"}

\* the call has left the try block for the failure path, or has ended
Aborted(k) == k.pc = "failedLog" \/ (k.pc = "done" /\ k.outcome = "failed")

\* the call has built its alert record and is about to write it or has
\* written it
RecordBuilt(k) == k.sosAlertData # Null

\* C1: for a call with a stream, the Firebase upload is tried exactly when the
\* Supabase upload threw or returned no URL, and the videoUrl of the alert is
\* the URL of the first store that succeeded, null only when both failed.
C1_UploadFallback ==
    \A c \in Calls :
        LET k == calls[c]
        IN  /\ k.pc = "supabaseUpload" =>
                   k.tried = <<"supabase">> /\ k.videoData.videoUrl = "null"
            /\ k.pc = "firebaseUpload" =>
                   /\ k.tried = <<"supabase", "firebase">>
                   /\ k.supaError # "none"
                   /\ k.videoData.videoUrl = "null"
            /\ RecordBuilt(k) /\ k.stream =>
                   \/ /\ k.tried = <<"supabase">>
                      /\ k.videoData.uploadedTo = "supabase"
                      /\ k.sosAlertData.videoUrl = SupabaseUrl
                   \/ /\ k.tried = <<"supabase", "firebase">>
                      /\ k.videoData.uploadedTo = "firebase"
                      /\ k.sosAlertData.videoUrl = FirebaseUrl
                   \/ /\ k.tried = <<"supabase", "firebase">>
                      /\ k.videoData.uploadedTo = "null"
                      /\ k.sosAlertData.videoUrl = "null"
            /\ RecordBuilt(k) /\ ~k.stream =>
                   k.tried = <<>> /\ k.sosAlertData.videoUrl = "null"

\* a call whose alert carries the URL of the Firebase fallback
C1_Witness ==
    \E c \in Calls :
        /\ RecordBuilt(calls[c])
        /\ calls[c].tried = <<"supabase", "firebase">>
        /\ calls[c].sosAlertData.videoUrl = FirebaseUrl

\* the head of the list stored in localStorage
StoredHead(store) == Head(ReadLocalAlerts(store))

\* C2: a call is never aborted for lack of video.  A call that leaves the
\* video step (or starts without a stream) goes on to write its record,
\* unless it has no location; a record built without video has videoUrl null
\* and is written (to localStorage, or handed to createSOSAlert); and on a
\* development host, where the backend call cannot fail, the call then ends
\* in the success state.
C2_Step(c) ==
    LET k == calls[c]
        k2 == calls'[c]
    IN  /\ (k.pc \in {"idle", "supabaseUpload", "firebaseUpload"} /\ Aborted(k2))
               => (k.pc # "idle" /\ k.currentLocation = Null)
        /\ (~RecordBuilt(k) /\ RecordBuilt(k2) /\ k2.videoData.videoUrl = "null")
               => /\ k2.sosAlertData.videoUrl = "null"
                  /\ k2.isLocalMode =>
                         (/\ k2.pc = "insert"
                          /\ StoredHead(localStorage').videoUrl = "null"
                          /\ StoredHead(localStorage').id = k2.alertId)
                  /\ ~k2.isLocalMode => k2.pc = "createSOSAlert"
        /\ (/\ k.pc \in {"idle", "location", "firebaseUpload"}
            /\ k2.pc \notin {k.pc, "supabaseUpload", "location"}
            /\ k2.currentLocation # Null)
               => RecordBuilt(k2)
        /\ (/\ k.pc = "backend" /\ k2.pc # "backend"
            /\ k.videoData.videoUrl = "null"
            /\ IsDevelopmentHost(hostname))
               => (k2.outcome = "success" /\ isActivated')

C2_NoAbortForVideo == [][\A c \in Calls : C2_Step(c)]_vars

\* a call whose two uploads failed waits for the backend with its record written
C2_Witness ==
    \E c \in Calls :
        /\ calls[c].pc = "backend"
        /\ calls[c].tried = <<"supabase", "firebase">>
        /\ calls[c].videoData.videoUrl = "null"
        /\ calls[c].alertId # Null

\* C3: whatever the sos_alerts insert does (error result, exception), the
\* call goes on to sendPanicAlertToBackend, and when that returns isActivated
\* is set: the only other way out of the backend call is its own failure,
\* which a development host never has.
C3_Step(c) ==
    LET k == calls[c]
        k2 == calls'[c]
    IN  /\ (k.pc = "insert" /\ k2.pc # "insert") => k2.pc = "backend"
        /\ (k.pc = "backend" /\ k2.pc # "backend" /\ k.supabaseInsertId = Null)
               => \/ k2.outcome = "success" /\ isActivated'
                  \/ ~IsDevelopmentHost(hostname) /\ Aborted(k2)

C3_InsertFailureDoesNotAbort == [][\A c \in Calls : C3_Step(c)]_vars

\* a call whose insert failed waits for sendPanicAlertToBackend
C3_Witness ==
    \E c \in Calls :
        /\ calls[c].pc = "backend"
        /\ calls[c].supabaseInsertId = Null
        /\ calls[c].insertPayload # Null

\* C4 (as claimed): isActivated becomes true only at the end of a call that
\* persisted an alert record (an alert id in hand) and whose backend call
\* returned.
C4_ActivatedOnlyAfterPersisted ==
    [][(~isActivated /\ isActivated') =>
           \E c \in Calls :
               /\ calls[c].pc = "backend"
               /\ calls[c].alertId # Null
               /\ calls'[c].pc = "done"
               /\ calls'[c].outcome = "success"]_vars

\* no call is in progress
Quiet == \A c \in Calls : calls[c].pc \notin InFlight

\* C5 (as claimed): the button resets by itself: when isActivated is true and
\* no call is in progress, a reset timer is pending.
C5_AutoReset == (isActivated /\ Quiet) => timers # {}

\* how far a call has come: every step of a call brings it further
Rank(pc) ==
    CASE pc = "idle" -> 0
      [] pc = "location" -> 1
      [] pc = "supabaseUpload" -> 2
      [] pc = "firebaseUpload" -> 3
      [] pc = "createSOSAlert" -> 4
      [] pc = "createdLog" -> 5
      [] pc = "insert" -> 6
      [] pc = "backend" -> 7
      [] pc = "failedLog" -> 8
      [] OTHER -> 9

\* C6: a call that passes the authentication check sets isProcessing, and
\* whatever the awaited calls do (return, error result, exception) the call
\* ends with isProcessing set back to false: every step of the call, the
\* settling of the call it awaits, brings it further (so that it has ended
\* after at most as many steps as there are positions), it leaves the
\* positions in progress only by ending, and the step that ends it has run
\* the finally block.
C6_Step(c) ==
    /\ (calls[c].pc = "idle" /\ calls'[c].pc \notin {"idle", "refused"})
           => isProcessing'
    /\ (calls[c].pc # "done" /\ calls'[c].pc = "done") => ~isProcessing'
    /\ calls'[c].pc # calls[c].pc => Rank(calls'[c].pc) > Rank(calls[c].pc)
    /\ (calls[c].pc \in InFlight /\ calls'[c].pc \notin InFlight)
           => calls'[c].pc = "done"

C6_ProcessingReset == [][\A c \in Calls : C6_Step(c)]_vars

\* a call has ended in the failure path after the failure log was written,
\* and isProcessing is false again
C6_Witness ==
    \E c \in Calls :
        /\ calls[c].pc = "done"
        /\ calls[c].outcome = "failed"
        /\ firebaseUser = FirebaseAuthUser
        /\ ~isProcessing

\* C7 (as claimed): at most one reset timer is pending, and it is the one
\* window.panicButtonTimeout holds.
C7_SingleTimer ==
    /\ Cardinality(timers) <= 1
    /\ timers # {} => timers = {panicButtonTimeout}

\* C10: in local mode the call that reaches the persistence step puts exactly
\* one alert at the head of the stored list, the list it stores is panicHistory
\* and realtimeAlerts, nothing else writes the stored list, and the call is
\* never at a Firestore operation.
C10_Step ==
    LET old == ReadLocalAlerts(localStorage)
        new == ReadLocalAlerts(localStorage')
        persisting == {c \in Calls : /\ ~RecordBuilt(calls[c])
                                     /\ RecordBuilt(calls'[c])
                                     /\ calls'[c].isLocalMode}
    IN  /\ localStorage' # localStorage => Cardinality(persisting) = 1
        /\ \A c \in persisting :
               /\ Len(new) = Len(old) + 1
               /\ Tail(new) = old
               /\ new[1] = StringifyAlert(panicHistory'[1])
               /\ new[1].id = calls'[c].alertId
               /\ new[1].userId = calls'[c].uid
               /\ panicHistory' = realtimeAlerts'
               /\ GetItem(localStorage', LocalSosAlertsKey)
                      = JSONStringify(panicHistory')
               /\ Tail(panicHistory') = old

C10_LocalMode ==
    /\ [][C10_Step]_vars
    /\ [](\A c \in Calls :
              calls[c].isLocalMode =>
                  calls[c].pc \notin {"createSOSAlert", "createdLog", "failedLog"})

\* a second alert has been stored in local mode
C10_Witness ==
    \E c \in Calls :
        /\ calls[c].isLocalMode
        /\ calls[c].pc = "insert"
        /\ Len(panicHistory) = 2
        /\ Len(ReadLocalAlerts(localStorage)) = 2

\* the positions a call can be at next, for each position: the order of the
\* steps of activatePanic
After(pc) ==
    CASE pc = "idle" ->
             {"refused", "location", "supabaseUpload", "createSOSAlert",
              "insert", "failedLog", "done"}
      [] pc = "location" ->
             {"supabaseUpload", "createSOSAlert", "insert", "failedLog", "done"}
      [] pc = "supabaseUpload" ->
             {"firebaseUpload", "createSOSAlert", "insert", "failedLog", "done"}
      [] pc = "firebaseUpload" ->
             {"createSOSAlert", "insert", "failedLog", "done"}
      [] pc = "createSOSAlert" -> {"createdLog", "insert", "failedLog"}
      [] pc = "createdLog" -> {"insert"}
      [] pc = "insert" -> {"backend"}
      [] pc = "backend" -> {"failedLog", "done"}
      [] pc = "failedLog" -> {"done"}
      [] OTHER -> {}

\* C12: the steps of a call happen in one order: location, video (Supabase,
\* then Firebase), record (localStorage, or createSOSAlert then the log),
\* sos_alerts insert, backend, success state.  A call moves only forward
\* along this order; the stored list is written by the step that ends the
\* video step and starts the insert; the record handed to the insert is the
\* one written; isActivated is set and a reset timer started only by the step
\* in which sendPanicAlertToBackend returns.
C12_Step ==
    /\ \A c \in Calls :
           calls'[c].pc # calls[c].pc => calls'[c].pc \in After(calls[c].pc)
    /\ localStorage' # localStorage =>
           \E c \in Calls :
               /\ calls[c].pc \in {"idle", "location", "supabaseUpload",
                                    "firebaseUpload"}
               /\ calls'[c].pc = "insert"
               /\ calls'[c].isLocalMode
    /\ \A c \in Calls :
           (calls[c].pc # "insert" /\ calls'[c].pc = "insert") =>
               /\ calls'[c].currentLocation # Null
               /\ calls'[c].insertPayload.video_url = calls'[c].videoData.videoUrl
               /\ calls'[c].isLocalMode =>
                      StoredHead(localStorage').id = calls'[c].alertId
               /\ ~calls'[c].isLocalMode =>
                      calls[c].pc \in {"createSOSAlert", "createdLog"}
    /\ ((~isActivated /\ isActivated') \/ ~(timers' \subseteq timers)) =>
           \E c \in Calls :
               /\ calls[c].pc = "backend"
               /\ calls'[c].pc = "done"
               /\ calls'[c].outcome = "success"
               /\ timers' = timers \cup {c}
               /\ panicButtonTimeout' = c

C12_StepOrder == [][C12_Step]_vars

\* a call in Firebase mode has gone through every step: location, both
\* uploads, createSOSAlert, the log, the insert, and waits for the backend
C12_Witness ==
    \E c \in Calls :
        /\ calls[c].pc = "backend"
        /\ ~calls[c].isLocalMode
        /\ calls[c].tried = <<"supabase", "firebase">>
        /\ calls[c].alertId # Null
        /\ calls[c].supabaseInsertId # Null

\* C19: no record is written without coordinates.  A call that has no
\* location (none was cached, and getCurrentLocation rejected or yielded
\* none) may still record and upload the video, but every step it takes
\* leaves the stored list, the lists of the provider, isActivated and the
\* reset timers as they were, builds no record, and leads to the uploads or
\* to the failure path; a call that is at createSOSAlert, the log, the insert
\* or the backend has a record with the coordinates of its location.
C19_Step(c) ==
    LET k == calls[c]
        k2 == calls'[c]
    IN  (/\ k.pc \in {"location", "supabaseUpload", "firebaseUpload"}
         /\ k2.pc # k.pc
         /\ k2.currentLocation = Null)
        => /\ k2.pc \in {"supabaseUpload", "firebaseUpload", "failedLog", "done"}
           /\ k2.pc = "done" => k2.outcome = "failed"
           /\ k2.pc \in {"supabaseUpload", "firebaseUpload"} => k.pc # k2.pc
           /\ ~RecordBuilt(k2)
           /\ UNCHANGED <<localStorage, panicHistory, realtimeAlerts,
                          isActivated, timers, panicButtonTimeout>>

C19_NoRecordWithoutCoordinates ==
    /\ [][\A c \in Calls : C19_Step(c)]_vars
    /\ [](\A c \in Calls :
              calls[c].pc \in {"createSOSAlert", "createdLog", "insert", "backend"}
              => /\ calls[c].currentLocation \in Locations
                 /\ RecordBuilt(calls[c])
                 /\ calls[c].sosAlertData.location.latitude
                        = calls[c].currentLocation.latitude
                 /\ calls[c].sosAlertData.location.longitude
                        = calls[c].currentLocation.longitude)

\* getCurrentLocation has yielded no location and the call, which has a
\* stream, is at the Firebase upload
C19_Witness ==
    \E c \in Calls :
        /\ calls[c].pc = "firebaseUpload"
        /\ calls[c].currentLocation = Null

\* C20: on a host named 'localhost' or containing 'fly.dev'
\* sendPanicAlertToBackend makes no request to /api/sos/alert and does not
\* throw: activatePanic goes on to the success state.  On any other host the
\* call succeeds only after an ok response whose body was read; a response
\* that is not ok, a network error, an unreadable body (and a user without
\* a token) takes activatePanic to the failure path, which leaves
\* isActivated, the reset timers and their handle as they were.
C20_Step(c) ==
    LET k == calls[c]
        k2 == calls'[c]
    IN  (k.pc = "backend" /\ k2.pc # "backend") =>
            IF IsDevelopmentHost(hostname)
            THEN /\ k2.pc = "done" /\ k2.outcome = "success"
                 /\ k2.fetch = "none"
                 /\ isActivated'
            ELSE \/ /\ k2.pc = "done" /\ k2.outcome = "success"
                    /\ k2.fetch = "ok"
                    /\ isActivated'
                 \/ /\ Aborted(k2)
                    /\ k2.fetch # "ok"
                    /\ k2.pc = "done" => ~firebaseUser.getIdToken
                    /\ UNCHANGED <<isActivated, timers, panicButtonTimeout>>

C20_BackendByHost ==
    /\ [][\A c \in Calls : C20_Step(c)]_vars
    /\ [](IsDevelopmentHost(hostname) =>
              \A c \in Calls : calls[c].fetch = "none")

\* on a host containing 'fly.dev' a call has ended in the success state
C20_Witness ==
    /\ hostname = "drishti.fly.dev"
    /\ calls[1].pc = "done"
    /\ calls[1].outcome = "success"
    /\ calls[1].fetch = "none"
    /\ isActivated

\* C18: a call of activatePanic without a signed-in uid or without a profile
\* changes nothing: the flags, the lists, the stored alerts, the reset timers
\* and their handle stay as they were, no other call is touched, and the call
\* itself has returned without awaiting anything.
C18_Step(c) ==
    (calls[c].pc = "idle" /\ calls'[c].pc # "idle"
        /\ ~Authenticated(firebaseUser, userProfile))
    => /\ calls'[c] = [NewCall EXCEPT !.pc = "refused"]
       /\ \A d \in Calls \ {c} : calls'[d] = calls[d]
       /\ UNCHANGED <<isProcessing, isActivated, hasActiveAlerts, panicHistory,
                      realtimeAlerts, panicButtonTimeout, timers, localStorage,
                      now, firebaseUser, userProfile>>

C18_UnauthenticatedChangesNothing == [][\A c \in Calls : C18_Step(c)]_vars

\* a call was refused after the sign-out, while the button shows the success
\* of the call before and its reset timer is pending
C18_Witness ==
    \E c \in Calls :
        /\ calls[c].pc = "refused"
        /\ firebaseUser = Null
        /\ isActivated
        /\ timers # {}
        /\ panicButtonTimeout # NoTimeout

-----------------------------------------------------------------------------
(* Properties of the alert list *)

\* at least one alert of the list has status 'pending' or 'active'
SomeActive(alerts) ==
    \E i \in 1..Len(alerts) : Status(alerts[i]) \in {"pending", "active"}

\* C8: when the effect has loaded the alerts (from localStorage, or by the
\* initial fetch), hasActiveAlerts tells whether one of them is pending or
\* active.
C8_Step ==
    (\/ effect.pc = "idle" /\ effect'.pc = "loaded"
     \/ effect.pc = "fetching" /\ effect'.pc = "subscribed")
        => /\ hasActiveAlerts' = SomeActive(panicHistory')
           /\ realtimeAlerts' = panicHistory'

C8_ActiveAfterLoad == [][C8_Step]_vars

\* the fetch has returned a resolved and an active alert
C8_Witness ==
    /\ effect.pc = "subscribed"
    /\ effect.lastEvent = "none"
    /\ Len(panicHistory) = 2
    /\ panicHistory[1].status = "resolved"
    /\ panicHistory[2].status = "active"
    /\ hasActiveAlerts

\* C9 (as claimed): after an UPDATE event hasActiveAlerts tells whether an
\* alert of the updated history is pending or active.
C9_ActiveAfterUpdate ==
    effect.lastEvent = "UPDATE" => hasActiveAlerts = SomeActive(panicHistory)

\* C17 (as claimed): once the cleanup of the effect has run, no channel of
\* that run is subscribed and no handler of it changes panicHistory,
\* realtimeAlerts or hasActiveAlerts.
C17_CleanupStopsRealtime ==
    /\ [](effect.cleaned => effect.channel # "subscribed")
    /\ [][effect.cleaned =>
              UNCHANGED <<panicHistory, realtimeAlerts, hasActiveAlerts>>]_vars

-----------------------------------------------------------------------------
(* Properties of the sign-in provider *)

\* the step of login n that leaves the await at pc
Leaves(n, pc) == logins[n].pc = pc /\ logins'[n].pc # pc

\* C11: when signInAnonymously fails, a login with valid data makes a local
\* user (an id that starts with 'local_', isLocalUser true), stores it under
\* 'safeguard_user_session', sets user, userProfile and isAuthenticated, and,
\* when it finishes, has resolved with that data.
C11_Step(n) ==
    /\ (Leaves(n, "signIn") /\ logins'[n].shouldUseFallback)
         => LET d == logins'[n].finalUserData
            IN  /\ StartsWithLocal(d.id)
                /\ d.isLocalUser
                /\ d.firebaseUid = NoUid
                /\ d.name = logins[n].processedUserData.name
                /\ GetItem(localStorage', SessionKey) = StringifyUser(d)
                /\ firebaseUser' = MockUser(d.id)
                /\ userProfile' = d
                /\ isAuthenticated'
                /\ logins'[n].pc = "finalSync"
    /\ (Leaves(n, "finalSync") /\ logins[n].shouldUseFallback)
         => /\ logins'[n].pc = "done"
            /\ logins'[n].result = "resolved"
            /\ logins'[n].value = logins[n].finalUserData
            /\ ~loading'

C11_LocalFallback == [][\A n \in Logins : C11_Step(n)]_vars

\* a login of the form has resolved with the local user, who is signed in
C11_Witness ==
    \E n \in Logins :
        /\ logins[n].pc = "done"
        /\ logins[n].caller = "form"
        /\ logins[n].result = "resolved"
        /\ logins[n].value.isLocalUser
        /\ StartsWithLocal(logins[n].value.id)
        /\ isAuthenticated
        /\ userProfile = logins[n].value
        /\ GetItem(localStorage, SessionKey) = StringifyUser(logins[n].value)

\* C15: when signInAnonymously succeeds, the login sets user to the Firebase
\* user, userProfile to the data with id and firebaseUid equal to the
\* Firebase uid, and isAuthenticated, and it resolves with that data; so it
\* does when the Firestore save has failed.
C15_Step(n) ==
    LET d == logins[n].finalUserData
    IN  /\ (\/ Leaves(n, "saveProfile") /\ logins'[n].pc # "firstSync"
            \/ Leaves(n, "firstSync"))
             => /\ d.id = FirebaseAuthUser.uid
                /\ d.firebaseUid = FirebaseAuthUser.uid
                /\ firebaseUser' = FirebaseAuthUser
                /\ userProfile' = d
                /\ isAuthenticated'
                /\ logins'[n].pc = "finalSync"
        /\ (Leaves(n, "finalSync") /\ ~logins[n].shouldUseFallback)
             => /\ logins'[n].result = "resolved"
                /\ logins'[n].value = d

C15_FirebaseLogin == [][\A n \in Logins : C15_Step(n)]_vars

\* C16: when the listener runs with no Firebase user and a session is stored
\* under 'drishti_user_session', it logs the stored user in, and when that
\* login has succeeded the user is authenticated at the end of the run.
C16_Step(l) ==
    (/\ listeners[l].pc = "login"
     /\ listeners'[l].pc = "done"
     /\ logins[listeners[l].login].result = "resolved")
        => /\ isAuthenticated'
           /\ firebaseUser' # Null
           /\ userProfile' = logins[listeners[l].login].value

C16_LegacyMigration ==
    /\ [][\A l \in Listeners : C16_Step(l)]_vars
    /\ [][(/\ auth.events # <<>>
           /\ auth'.events = Tail(auth.events)
           /\ Head(auth.events) = Null
           /\ GetItem(localStorage, LegacySessionKey) # Null
           /\ ~ParseUser(GetItem(localStorage, LegacySessionKey)).threw)
             => \E n \in Logins : /\ logins[n].pc = "idle"
                                  /\ logins'[n].caller = "listener"]_vars

-----------------------------------------------------------------------------
(* Properties of the stub client *)

\* C14: with the stub client every query chain, also one awaited without
\* maybeSingle or single, completes when awaited, with data null and the
\* error 'Supabase not configured': no call of the chain throws and no await
\* stays pending, so the chains of activatePanic, of the alert-loading
\* effect and of ensureSupabaseUser complete.
C14_StubQueryCompletes ==
    /\ query.pc # "threw"
    /\ query.pc = "awaiting" => CallsResolve(query.object)
    /\ query.pc = "settled" => query.result = NotConfigured
    /\ (query.chain \in CallerChains /\ query.pc = "awaiting")
         => query.object = "promise"

-----------------------------------------------------------------------------
(* Properties of recordStreamToBlob *)

\* C13: the promise of recordStreamToBlob settles once and does not stay
\* pending: while it is pending the timer or an event of the recorder is
\* still to come; the timer leaves no recorder recording; the promise is
\* resolved with the recorded blob, which is not empty, and it is rejected
\* after a recorder error, for a stream without a live video track and for
\* an empty recording.
C13_Settled ==
    /\ (recorder.pc = "called" /\ recorder.promise = "pending")
         => recorder.timeout = "pending" \/ recorder.events # <<>>
    /\ recorder.timeout = "fired" => recorder.state # "recording"
    /\ recorder.failed => recorder.promise = "rejected"
    /\ (recorder.pc = "called" /\ recorder.stream # "live")
         => recorder.promise = "rejected"
    /\ recorder.promise = "resolved"
         => /\ recorder.value = [size |-> BlobSize(recorder.chunks)]
            /\ recorder.value.size > 0
            /\ recorder.state = "inactive"

C13_RecordingSettles ==
    /\ []C13_Settled
    /\ [][recorder.promise # "pending"
            => /\ recorder'.promise = recorder.promise
               /\ recorder'.value = recorder.value]_vars

-----------------------------------------------------------------------------
(* Properties of overlapping activatePanic calls *)

\* C28: isProcessing is true whenever an activatePanic call that passed the
\* authentication check is still in progress, also when two calls overlap
\* and one of them ends before the other.
C28_ProcessingWhileInFlight ==
    (\E c \in Calls : calls[c].pc \in InFlight) => isProcessing

-----------------------------------------------------------------------------
(* Properties of the button and the alert list together *)

\* C27: deactivatePanic and resetButtonState have the same effect in every
\* state: the timer window.panicButtonTimeout names is cancelled, the handle
\* is null and isActivated is false afterwards, and hasActiveAlerts,
\* isProcessing, panicHistory and realtimeAlerts are as before; the loading
\* of alerts and the realtime INSERT and UPDATE events do not change
\* isActivated.  A step of the loading effect or of a realtime handler is a
\* step that changes the lists, hasActiveAlerts or the effect and is not a
\* step of an activatePanic call.
AlertStep ==
    /\ calls' = calls
    /\ <<panicHistory, realtimeAlerts, hasActiveAlerts, effect>>'
         # <<panicHistory, realtimeAlerts, hasActiveAlerts, effect>>

C27_Step ==
    /\ (DeactivatePanic \/ ResetButtonState)
         => /\ panicButtonTimeout' = NoTimeout
            /\ ~isActivated'
            /\ timers' = timers \ {panicButtonTimeout}
            /\ UNCHANGED <<hasActiveAlerts, isProcessing, panicHistory,
                           realtimeAlerts>>
    /\ AlertStep => UNCHANGED <<isActivated, panicButtonTimeout, timers>>

C27_ResetsAndAlerts ==
    /\ [](DeactivatePanicOp(State) = ResetButtonStateOp(State))
    /\ [][C27_Step]_vars

\* the button was activated while alerts were shown as active, and then
\* reset by hand: the timer is cancelled and its handle is null (the timer,
\* when it fires, leaves the handle)
C27_Witness ==
    /\ calls[1].pc = "done"
    /\ calls[1].outcome = "success"
    /\ ~isActivated
    /\ panicButtonTimeout = NoTimeout
    /\ timers = {}
    /\ hasActiveAlerts
    /\ Len(panicHistory) > 0

-----------------------------------------------------------------------------
(* Properties of the realtime handlers *)

\* C25: a realtime INSERT event puts the new alert at the head of
\* panicHistory and of realtimeAlerts, leaves the alerts already in the lists
\* as they were and in their order, and sets hasActiveAlerts to true.
C25_Step ==
    \A row \in Rows :
        (effect.channel = "subscribed" /\ CommitAlerts(OnInsert(AlertState, row)))
            => /\ Head(panicHistory') = Normalize(row)
               /\ Head(realtimeAlerts') = Normalize(row)
               /\ Tail(panicHistory') = panicHistory
               /\ Tail(realtimeAlerts') = realtimeAlerts
               /\ hasActiveAlerts'

C25_InsertAtHead == [][C25_Step]_vars

\* an INSERT event has put a resolved alert before an alert that was loaded
C25_Witness ==
    /\ effect.lastEvent = "INSERT"
    /\ Len(panicHistory) = 2
    /\ panicHistory[1].id # panicHistory[2].id
    /\ panicHistory[1].status = "resolved"
    /\ panicHistory[2].status = "active"
    /\ realtimeAlerts = panicHistory
    /\ hasActiveAlerts

\* C26: a realtime UPDATE event replaces, in panicHistory and in
\* realtimeAlerts, the alert whose id is the id of the updated row and
\* changes nothing else in the lists: their length, their order and every
\* other alert stay; an UPDATE for an id that is in neither list leaves both
\* unchanged.
Replaced(before, after, updated) ==
    /\ Len(after) = Len(before)
    /\ \A i \in 1..Len(before) :
          /\ before[i].id = updated.id => after[i] = updated
          /\ before[i].id # updated.id => after[i] = before[i]
    /\ (\A i \in 1..Len(before) : before[i].id # updated.id) => after = before

C26_Step ==
    \A row \in Rows :
        (effect.channel = "subscribed" /\ CommitAlerts(OnUpdate(AlertState, row)))
            => /\ Replaced(panicHistory, panicHistory', Normalize(row))
               /\ Replaced(realtimeAlerts, realtimeAlerts', Normalize(row))

C26_UpdateInPlace == [][C26_Step]_vars

\* an UPDATE event has been handled while two alerts with different ids were
\* listed, the second of them resolved
C26_Witness ==
    /\ effect.lastEvent = "UPDATE"
    /\ Len(panicHistory) = 2
    /\ panicHistory[1].id # panicHistory[2].id
    /\ panicHistory[1].status = "active"
    /\ panicHistory[2].status = "resolved"
    /\ realtimeAlerts = panicHistory

-----------------------------------------------------------------------------
(* Properties of the validation in login *)

ValidationMessages ==
    {"Please fill in all required fields",
     "Please enter a valid email address",
     "Please enter a valid phone number"}

\* C24: a login whose data lacks the name, the email or the phone, or has an
\* email or a phone the patterns reject, throws before a sign-in is tried: it
\* ends in the step it starts in, rejected with the message of the
\* validation; user, userProfile, isAuthenticated, localStorage and
\* Firebase's user are as before and loading is false.  A login that awaits
\* the sign-in has data that passed every check.
C24_Step(n) ==
    \A userData \in UserDatas :
        (/\ ValidationError(userData) # "null"
         /\ logins[n].pc = "idle"
         /\ logins'[n] = StartLogin(AuthState, n, logins'[n].caller,
                                    userData).logins[n])
            => /\ logins'[n].pc = "done"
               /\ logins'[n].result = "rejected"
               /\ logins'[n].value = [message |-> ValidationError(userData)]
               /\ logins'[n].value.message \in ValidationMessages
               /\ logins'[n].finalUserData = Null
               /\ ~loading'
               /\ auth'.currentUser = auth.currentUser
               /\ UNCHANGED <<firebaseUser, userProfile, isAuthenticated,
                              localStorage>>

C24_ValidationRejects ==
    /\ [][\A n \in Logins : C24_Step(n)]_vars
    /\ [](\A n \in Logins :
             logins[n].pc = "signIn"
                => /\ logins[n].processedUserData.name # ""
                   /\ EmailRegexTest(logins[n].processedUserData.email)
                   /\ PhoneRegexTest(StripPhone(
                          logins[n].processedUserData.phone)))

\* a login of the form was rejected for its phone number; nobody is signed in
C24_Witness ==
    \E n \in Logins :
        /\ logins[n].pc = "done"
        /\ logins[n].caller = "form"
        /\ logins[n].result = "rejected"
        /\ logins[n].value = [message |-> "Please enter a valid phone number"]
        /\ ~loading
        /\ ~isAuthenticated
        /\ firebaseUser = Null
        /\ localStorage = <<>>

-----------------------------------------------------------------------------
(* Properties of ensureSupabaseUser *)

\* C23: a call of ensureSupabaseUser made while a row with the user_id
\* exists ends with status 'exists' and sends no insert; a call that ends
\* with 'inserted' has added one row; and the calls made one after another
\* for one user_id insert at most one row between them.
C23_Step ==
    /\ (ensure.pc = "select" /\ ensure.before > 0)
         => /\ ensure'.pc = "done"
            /\ ensure'.result \in {"exists", "threw"}
    /\ (ensure.pc = "insert" /\ ensure'.result = "inserted")
         => usersTable' = usersTable + 1

C23_AtMostOneInsert ==
    /\ [][C23_Step]_vars
    /\ [](ensure.inserted <= 1)
    /\ [](ensure.result = "exists" => ensure.before > 0)

\* C21, step part: a call comes to the 'sos_alert_created' log only from
\* createSOSAlert, in Firebase mode and with the alert id it returned; a call
\* whose createSOSAlert returned no id goes on to the sos_alerts insert
\* without the log; whatever the created log's outcome, the call goes on to
\* the insert; a call comes to the 'sos_alert_failed' log only in Firebase
\* mode and from a position inside the try block, and whatever that log's
\* outcome the call ends as failed with isProcessing false
C21_Step ==
    \A c \in Calls :
        /\ (calls[c].pc # "createdLog" /\ calls'[c].pc = "createdLog") =>
               /\ calls[c].pc = "createSOSAlert"
               /\ calls'[c].alertId # Null
               /\ ~calls'[c].isLocalMode
        /\ (calls[c].pc = "createSOSAlert" /\ calls'[c].pc = "insert") =>
               calls'[c].alertId = Null
        /\ (calls[c].pc = "createdLog" /\ calls'[c] # calls[c]) =>
               calls'[c].pc = "insert"
        /\ (calls[c].pc # "failedLog" /\ calls'[c].pc = "failedLog") =>
               /\ calls[c].pc \in InFlight
               /\ ~calls[c].isLocalMode
               /\ Len(calls[c].uid) > 0
        /\ (calls[c].pc = "failedLog" /\ calls'[c] # calls[c]) =>
               /\ calls'[c].pc = "done"
               /\ calls'[c].outcome = "failed"
               /\ ~isProcessing'

\* C21: in Firebase mode the 'sos_alert_created' log is written only when
\* createSOSAlert returned an alert id and its failure does not abort the
\* activation; the 'sos_alert_failed' log is written only in Firebase mode and
\* only on the failure path, and its failure does not prevent the reset of
\* isProcessing
C21_NotificationLogs ==
    /\ [](\A c \in Calls :
              /\ calls[c].pc = "createdLog" =>
                     calls[c].alertId # Null /\ ~calls[c].isLocalMode
              /\ calls[c].pc = "failedLog" => ~calls[c].isLocalMode)
    /\ [][C21_Step]_vars

\* one call is writing the 'sos_alert_failed' log while another, which was
\* given an alert id, is writing the 'sos_alert_created' log
C21_Witness ==
    /\ calls[1].pc = "failedLog" /\ ~calls[1].isLocalMode
    /\ calls[2].pc = "createdLog" /\ calls[2].alertId # Null

-----------------------------------------------------------------------------
(* One call of activatePanic, with or without a message *)

\* activatePanic(message, stream) where the message may be the empty string
ActivatePanicAnyMessage ==
    /\ calls[1].pc = "idle"
    /\ \E message \in Messages \cup {""}, stream \in BOOLEAN,
          location \in Locations \cup {Null} :
          IF Authenticated(firebaseUser, userProfile)
          THEN Commit(StartPanic(State, 1, firebaseUser, userProfile,
                                 message, stream, location))
          ELSE Commit(Refuse(State, 1))

NextRow ==
    \/ ActivatePanicAnyMessage
    \/ GetCurrentLocationSettles(1)
    \/ SupabaseUploadSettles(1)
    \/ FirebaseUploadSettles(1)
    \/ CreateSOSAlertSettles(1)
    \/ CreatedLogSettles(1)
    \/ SupabaseInsertSettles(1)
    \/ BackendSettles(1)
    \/ FailedLogSettles(1)
    \/ ResetTimerFires

RowSpec == InitOneCall /\ [][NextRow]_vars

\* the alert record a call has written: in local mode the head of the list
\* stored under 'local_sos_alerts', in Firebase mode the argument it gave to
\* createSOSAlert
WrittenRecord(k, store) ==
    IF k.isLocalMode THEN ReadLocalAlerts(store)[1] ELSE k.sosAlertData

\* C22, step part: when a call sends the sos_alerts insert, the row carries
\* the user id, message, video URL, latitude, longitude and address of the
\* record the call has written, and status 'pending'
C22_Step ==
    \A c \in Calls :
        (calls[c].pc # "insert" /\ calls'[c].pc = "insert") =>
            LET row == calls'[c].insertPayload
                record == WrittenRecord(calls'[c], localStorage')
            IN  /\ row.user_id = record.userId
                /\ row.message = record.message
                /\ row.video_url = record.videoUrl
                /\ row.location_latitude = record.location.latitude
                /\ row.location_longitude = record.location.longitude
                /\ row.location_address = record.location.address
                /\ row.status = "pending"
                /\ calls[c].pc \in
                       IF calls'[c].isLocalMode
                       THEN {"idle", "location", "supabaseUpload",
                             "firebaseUpload"}
                       ELSE {"createSOSAlert", "createdLog"}

\* C22: the row inserted into sos_alerts by activatePanic carries the same
\* user id, message, video URL, latitude, longitude and address as the alert
\* record written to Firestore or local storage in the same call, with status
\* 'pending', in local mode and in Firebase mode alike
C22_RowMirrorsRecord == [][C22_Step]_vars

\* a call without a message and without a video has sent its insert
C22_Witness ==
    /\ calls[1].pc = "insert"
    /\ calls[1].insertPayload.message = DefaultMessage
    /\ calls[1].insertPayload.video_url = "null"
    /\ calls[1].insertPayload.status = "pending"

====
